---- MODULE Spec2Model ----
(***************************************************************************)
(* D2Q9 lattice Boltzmann solvers of the repository:                       *)
(*   - the compiled open-channel solver  (C++ class LBMSolver),            *)
(*   - the interpreted open-channel solver (JS class LBMSolver),           *)
(*   - the lid-driven cavity solver (JS class LBMCavity).                  *)
(*                                                                         *)
(* Numbers.  The scalar parameters (nu, tau, omega, u0, currentVelocity,   *)
(* lidVelocity) are exact rationals <<n, d>>; d = 0 stands for a           *)
(* non-finite double (NaN, Infinity).  The lattice fields (f, rho, ux, uy) *)
(* are held in the prime field of P elements, the image of the rationals   *)
(* under reduction modulo P: sums, products and quotients of the code are  *)
(* computed exactly there, an equation between two rational expressions    *)
(* that holds in exact arithmetic holds in the field, and two values that  *)
(* differ in the field differ in exact arithmetic.  The element NaN stands *)
(* for a non-finite double (the result of dividing by zero, or of any      *)
(* operation on a non-finite operand).  A density that is nonzero in exact *)
(* arithmetic can vanish in the field, and its quotients are then NaN: no  *)
(* state of any specification but SpecRamp has such a density; over the    *)
(* hundreds of ticks of SpecRamp some do, and only the ramp-up schedule,   *)
(* which is rational and reads no lattice value, is examined there.        *)
(*                                                                         *)
(* A square root is kept as its radicand: two roots are equal exactly when *)
(* their radicands are.                                                    *)
(***************************************************************************)
EXTENDS Integers, Sequences, FiniteSets, TLC

\* ------------------------------------------------------------------------
\* Exact rationals for the scalar parameters
\* ------------------------------------------------------------------------
Abs(x) == IF x < 0 THEN -x ELSE x
Min(a, b) == IF a < b THEN a ELSE b

\* the identity; comparing x with itself makes the evaluator compute the arrays
\* of a stage once, before the next stage reads them
Computed(x) == IF x = x THEN x ELSE x

RECURSIVE Gcd(_, _)
Gcd(a, b) == IF b = 0 THEN a ELSE Gcd(b, a % b)

\* n/d in lowest terms with a positive denominator; d = 0 is non-finite.
Rat(n, d) ==
    IF d = 0 THEN <<0, 0>>
    ELSE LET g == Gcd(Abs(n), Abs(d))
             s == IF d < 0 THEN -1 ELSE 1
         IN  <<s * (n \div g), s * (d \div g)>>

RatFinite(q) == q[2] # 0
RatAdd(p, q) == IF p[2] = 0 \/ q[2] = 0 THEN <<0, 0>> ELSE Rat(p[1] * q[2] + q[1] * p[2], p[2] * q[2])
RatMul(p, q) == IF p[2] = 0 \/ q[2] = 0 THEN <<0, 0>> ELSE Rat(p[1] * q[1], p[2] * q[2])
RatDiv(p, q) == IF p[2] = 0 \/ q[2] = 0 THEN <<0, 0>> ELSE Rat(p[1] * q[2], p[2] * q[1])
RatLeq(p, q) == p[2] # 0 /\ q[2] # 0 /\ p[1] * q[2] <= q[1] * p[2]
RatInt(n) == <<n, 1>>

RatNeg(p) == <<-p[1], p[2]>>
RatSub(p, q) == RatAdd(p, RatNeg(q))
RatAbs(p) == <<Abs(p[1]), p[2]>>
RatLt(p, q) == p[2] # 0 /\ q[2] # 0 /\ p[1] * q[2] < q[1] * p[2]

\* ------------------------------------------------------------------------
\* Fixed-point numbers with three decimals, for the airfoil outline: the
\* code's cos, sin and sqrt have no exact rational value
\* ------------------------------------------------------------------------
Milli == 1000
MilliMul(a, b) == (a * b) \div Milli
MilliDiv(a, b) == (a * Milli) \div b

\* largest r in lo..hi with r * r <= n
RECURSIVE RootBetween(_, _, _)
RootBetween(n, lo, hi) ==
    IF lo >= hi THEN lo
    ELSE LET mid == (lo + hi + 1) \div 2
         IN  IF mid * mid <= n THEN RootBetween(n, mid, hi) ELSE RootBetween(n, lo, mid - 1)

MilliSqrt(x) == RootBetween(x * Milli, 0, 40 * Milli)

\* cos and sin of the 5 degree angle of attack
Cos5 == 996
Sin5 == 87

\* 0.2969*sqrt(x) - 0.126*x - 0.3516*x^2 + 0.2843*x^3 - 0.1015*x^4
NacaThickness(x) ==
    LET x2 == MilliMul(x, x)
        x3 == MilliMul(x2, x)
        x4 == MilliMul(x3, x)
    IN  (2969 * MilliSqrt(x) - 1260 * x - 3516 * x2 + 2843 * x3 - 1015 * x4) \div 10000

\* ------------------------------------------------------------------------
\* The prime field for the lattice fields
\* ------------------------------------------------------------------------
P == 46337
NaN == P

RECURSIVE InvStep(_, _, _, _)
InvStep(r0, r1, t0, t1) ==
    IF r1 = 0 THEN t0 % P
    ELSE InvStep(r1, r0 % r1, t1, t0 - (r0 \div r1) * t1)

FInv(a) == InvStep(P, a, 0, 1)

FAdd(a, b) == IF a = NaN \/ b = NaN THEN NaN ELSE (a + b) % P
FSub(a, b) == IF a = NaN \/ b = NaN THEN NaN ELSE (a - b) % P
FMul(a, b) == IF a = NaN \/ b = NaN THEN NaN ELSE (a * b) % P
FDiv(a, b) == IF a = NaN \/ b = NaN \/ b = 0 THEN NaN ELSE (a * FInv(b)) % P
\* an integer constant of the code (ex[k], 3, 9, ...) as a field element
FInt(n) == n % P
\* the decimal or fraction n/d of the code as a field element
Frac(n, d) == FDiv(n % P, d % P)
\* a scalar parameter as a field element
ToField(q) == IF q[2] = 0 THEN NaN ELSE Frac(q[1], q[2])

\* ------------------------------------------------------------------------
\* Direction table (shared by the three solvers)
\* ------------------------------------------------------------------------
Dirs == 0..8
ex == [k \in Dirs |-> CASE k \in {1, 5, 8} -> 1 [] k \in {3, 6, 7} -> -1 [] OTHER -> 0]
ey == [k \in Dirs |-> CASE k \in {2, 5, 6} -> 1 [] k \in {4, 7, 8} -> -1 [] OTHER -> 0]
w == [k \in Dirs |-> CASE k = 0 -> Frac(4, 9) [] k \in 1..4 -> Frac(1, 9) [] OTHER -> Frac(1, 36)]
opp == [k \in Dirs |-> CASE k = 0 -> 0 [] k = 1 -> 3 [] k = 2 -> 4 [] k = 3 -> 1 [] k = 4 -> 2
                         [] k = 5 -> 7 [] k = 6 -> 8 [] k = 7 -> 5 [] OTHER -> 6]

rampUpSteps == 500

\* literals of the code, as field elements
Zero == FInt(0)
One == FInt(1)
Three == FInt(3)
Half == Frac(1, 2)
OneAndHalf == Frac(3, 2)
FourAndHalf == Frac(9, 2)
exF == [k \in Dirs |-> FInt(ex[k])]
eyF == [k \in Dirs |-> FInt(ey[k])]

\* sum of a nine-entry population vector, and its first moments
Sum9(g) == FAdd(FAdd(FAdd(FAdd(FAdd(FAdd(FAdd(FAdd(g[0], g[1]), g[2]), g[3]), g[4]), g[5]), g[6]), g[7]), g[8])
MomX(g) == Sum9([k \in Dirs |-> FMul(exF[k], g[k])])
MomY(g) == Sum9([k \in Dirs |-> FMul(eyF[k], g[k])])

\* ------------------------------------------------------------------------
\* C++ LBMSolver
\* ------------------------------------------------------------------------
Cols(s) == 0..(s.width - 1)
Rows(s) == 0..(s.height - 1)
Grid(s, v) == [i \in Cols(s) |-> [j \in Rows(s) |-> v]]

\* w[k] * rho * (1 + cu + 0.5*cu*cu - u2), cu = 3(e.u), u2 = 1.5|u|^2
CppEquilibrium(k, rho_local, ux_local, uy_local) ==
    LET u2 == FMul(OneAndHalf, FAdd(FMul(ux_local, ux_local), FMul(uy_local, uy_local)))
        cu == FMul(Three, FAdd(FMul(exF[k], ux_local), FMul(eyF[k], uy_local)))
    IN  FMul(FMul(w[k], rho_local),
             FSub(FAdd(FAdd(One, cu), FMul(Half, FMul(cu, cu))), u2))

CppSetViscosity(s, viscosity) ==
    LET t == RatAdd(RatMul(RatInt(3), viscosity), Rat(1, 2))
    IN  [s EXCEPT !.nu = viscosity, !.tau = t, !.omega = RatDiv(RatInt(1), t)]

\* setVelocity that also jumps to the new target, skipping the ramp
CppSetVelocityAtOnce(s, velocity) == [s EXCEPT !.u0 = velocity, !.currentVelocity = velocity]
CppSetVelocity(s, velocity) == [s EXCEPT !.u0 = velocity]

CppCx(s) == RatMul(RatInt(s.width), Rat(1, 4))
CppCy(s) == RatMul(RatInt(s.height), Rat(1, 2))

\* each create* only ever sets cells to true
CppMark(s, In(_, _)) ==
    [s EXCEPT !.obstacle = [i \in Cols(s) |-> [j \in Rows(s) |-> s.obstacle[i][j] \/ In(i, j)]]]

createCircle(s) ==
    LET radius == RatMul(RatInt(s.height), Rat(16, 100))
        In(i, j) == LET dx == RatSub(RatInt(i), CppCx(s))
                        dy == RatSub(RatInt(j), CppCy(s))
                    IN  RatLt(RatAdd(RatMul(dx, dx), RatMul(dy, dy)), RatMul(radius, radius))
    IN  CppMark(s, In)

createAirfoil(s) ==
    LET cx == (s.width * Milli) \div 4
        cy == (s.height * Milli) \div 2
        chord == (s.height * Milli * 10) \div 35
        thickness == 120
        In(i, j) == LET dx == i * Milli - cx
                        dy == j * Milli - cy
                        xRot == MilliMul(dx, Cos5) - MilliMul(dy, -Sin5)
                        yRot == MilliMul(dx, -Sin5) + MilliMul(dy, Cos5)
                        x_c == MilliDiv(xRot, chord)
                        yt == MilliMul(MilliMul(5 * thickness, chord), NacaThickness(x_c))
                    IN  xRot >= 0 /\ xRot <= chord /\ Abs(yRot) <= yt
    IN  CppMark(s, In)

createSquare(s) ==
    LET size == RatMul(RatInt(s.height), Rat(15, 100))
        In(i, j) == /\ RatLt(RatAbs(RatSub(RatInt(i), CppCx(s))), size)
                    /\ RatLt(RatAbs(RatSub(RatInt(j), CppCy(s))), size)
    IN  CppMark(s, In)

createFlatPlate(s) ==
    LET length == RatMul(RatInt(s.height), Rat(25, 100))
        thickness == Rat(25, 10)
        In(i, j) == /\ RatLt(RatAbs(RatSub(RatInt(i), CppCx(s))), length)
                    /\ RatLt(RatAbs(RatSub(RatInt(j), CppCy(s))), thickness)
    IN  CppMark(s, In)

createTriangle(s) ==
    LET triSize == RatMul(RatInt(s.height), Rat(125, 1000))
        In(i, j) == LET dx == RatSub(RatInt(i), CppCx(s))
                        dy == RatSub(RatInt(j), CppCy(s))
                        width_at_x == IF RatLt(dx, RatInt(0))
                                      THEN RatMul(RatAdd(triSize, dx), Rat(8, 10))
                                      ELSE RatMul(RatSub(triSize, dx), Rat(8, 10))
                    IN  RatLt(RatAbs(dx), triSize) /\ RatLt(RatAbs(dy), width_at_x)
    IN  CppMark(s, In)

\* reset() without the loop that clears the obstacle flags
CppKeepObstacle(s) == s
CppClearObstacle(s) == [s EXCEPT !.obstacle = Grid(s, FALSE)]

CppCreateGeometry(s) ==
    CASE s.currentGeometry = "circle"     -> createCircle(s)
      [] s.currentGeometry = "airfoil"    -> createAirfoil(s)
      [] s.currentGeometry = "square"     -> createSquare(s)
      [] s.currentGeometry = "flat_plate" -> createFlatPlate(s)
      [] s.currentGeometry = "triangle"   -> createTriangle(s)
      [] OTHER                            -> s

CppInitDistributions(s) ==
    LET rho0 == One
        ux0 == Zero
        uy0 == Zero
        cell == [k \in Dirs |-> CppEquilibrium(k, rho0, ux0, uy0)]
    IN  [s EXCEPT !.f = Grid(s, cell), !.fTemp = Grid(s, cell),
                  !.rho = Grid(s, rho0), !.ux = Grid(s, ux0), !.uy = Grid(s, uy0)]

CppReset(s) ==
    CppInitDistributions(CppCreateGeometry(CppClearObstacle(
        [s EXCEPT !.stepCount = 0, !.currentVelocity = RatInt(0)])))

CppSetGeometry(s, geom) == CppReset([s EXCEPT !.currentGeometry = geom])

\* ramp-up without the else branch: the inlet never reaches u0
CppRampUpStalls(s) ==
    IF s.stepCount < rampUpSteps
    THEN [s EXCEPT !.currentVelocity = RatDiv(RatMul(s.u0, RatInt(s.stepCount)), RatInt(rampUpSteps)),
                   !.stepCount = s.stepCount + 1]
    ELSE s
CppRampUp(s) ==
    IF s.stepCount < rampUpSteps
    THEN [s EXCEPT !.currentVelocity = RatDiv(RatMul(s.u0, RatInt(s.stepCount)), RatInt(rampUpSteps)),
                   !.stepCount = s.stepCount + 1]
    ELSE [s EXCEPT !.currentVelocity = s.u0]

\* one non-obstacle cell of the collision loop
CppCollideCell(fij, omega) ==
    LET rho_local == Sum9(fij)
        ux_local == FDiv(MomX(fij), rho_local)
        uy_local == FDiv(MomY(fij), rho_local)
    IN  [rho |-> rho_local, ux |-> ux_local, uy |-> uy_local,
         f |-> [k \in Dirs |->
                  FAdd(fij[k], FMul(omega, FSub(CppEquilibrium(k, rho_local, ux_local, uy_local), fij[k])))]]

CppCollision(s) ==
    LET om == ToField(s.omega)
        c == Computed([i \in Cols(s) |-> [j \in Rows(s) |->
                IF s.obstacle[i][j]
                THEN [rho |-> s.rho[i][j], ux |-> s.ux[i][j], uy |-> s.uy[i][j], f |-> s.f[i][j]]
                ELSE CppCollideCell(s.f[i][j], om)]])
    IN  [s EXCEPT !.f   = [i \in Cols(s) |-> [j \in Rows(s) |-> c[i][j].f]],
                  !.rho = [i \in Cols(s) |-> [j \in Rows(s) |-> c[i][j].rho]],
                  !.ux  = [i \in Cols(s) |-> [j \in Rows(s) |-> c[i][j].ux]],
                  !.uy  = [i \in Cols(s) |-> [j \in Rows(s) |-> c[i][j].uy]]]

\* a streaming pass that pulls into the obstacle cells as into any other
CppStreamingIntoObstacle(s) ==
    LET pulled(i, j, k) ==
            LET iprev == i - ex[k]
                jprev == j - ey[k]
            IN  IF iprev >= 0 /\ iprev < s.width /\ jprev >= 0 /\ jprev < s.height
                THEN s.f[iprev][jprev][k]
                ELSE s.f[i][j][k]
    IN  [s EXCEPT !.f = [i \in Cols(s) |-> [j \in Rows(s) |-> [k \in Dirs |-> pulled(i, j, k)]]],
                  !.fTemp = s.f]
\* copy to fTemp, pull (or bounce back in fTemp), then swap f and fTemp
CppStreaming(s) ==
    LET pulled(i, j, k) ==
            LET iprev == i - ex[k]
                jprev == j - ey[k]
            IN  IF iprev >= 0 /\ iprev < s.width /\ jprev >= 0 /\ jprev < s.height
                THEN s.f[iprev][jprev][k]
                ELSE s.f[i][j][k]
        streamed == [i \in Cols(s) |-> [j \in Rows(s) |-> [k \in Dirs |->
                       IF s.obstacle[i][j] THEN s.f[i][j][opp[k]] ELSE pulled(i, j, k)]]]
    IN  [s EXCEPT !.f = streamed, !.fTemp = s.f]

\* a wall that reflects the pure-vertical pair only
CppFreeSlipCellVerticalOnly(g) ==
    [k \in Dirs |-> CASE k = 2 -> g[4] [] k = 4 -> g[2] [] OTHER -> g[k]]
\* swap 2 <-> 4, 5 <-> 8, 6 <-> 7 of one cell
CppFreeSlipCell(g) ==
    [k \in Dirs |-> CASE k = 2 -> g[4] [] k = 4 -> g[2] [] k = 5 -> g[8] [] k = 8 -> g[5]
                      [] k = 6 -> g[7] [] k = 7 -> g[6] [] OTHER -> g[k]]

\* an inlet that leaves the solid cells of column 0 alone
CppInletFluidOnly(s) ==
    LET rho_in == One
        ux_in == ToField(s.currentVelocity)
        uy_in == Zero
        cell == [k \in Dirs |-> CppEquilibrium(k, rho_in, ux_in, uy_in)]
    IN  [s EXCEPT !.f = [i \in Cols(s) |-> [j \in Rows(s) |->
                           IF i = 0 /\ ~s.obstacle[i][j] THEN cell ELSE s.f[i][j]]]]
CppInlet(s) ==
    LET rho_in == One
        ux_in == ToField(s.currentVelocity)
        uy_in == Zero
        cell == [k \in Dirs |-> CppEquilibrium(k, rho_in, ux_in, uy_in)]
    IN  [s EXCEPT !.f = [i \in Cols(s) |-> [j \in Rows(s) |-> IF i = 0 THEN cell ELSE s.f[i][j]]]]

\* an outlet column left as streaming wrote it
CppOutletKept(s) == s
CppOutlet(s) ==
    [s EXCEPT !.f = [i \in Cols(s) |-> [j \in Rows(s) |->
                       IF i = s.width - 1 THEN s.f[s.width - 2][j] ELSE s.f[i][j]]]]

CppFreeSlipRow(s, row) ==
    [s EXCEPT !.f = [i \in Cols(s) |-> [j \in Rows(s) |->
                       IF j = row THEN CppFreeSlipCell(s.f[i][j]) ELSE s.f[i][j]]]]

CppApplyBoundaryConditions(s) ==
    CppFreeSlipRow(CppFreeSlipRow(CppOutlet(CppInlet(s)), 0), s.height - 1)

\* --- the streaming pass cell by cell, in the order of the loops
\* the cell whose population k the pull of cell (i, j) reads; <<>> when that
\* cell is outside the grid and nothing is read
CppSource(s, i, j, k) ==
    LET iprev == i - ex[k]
        jprev == j - ey[k]
    IN  IF iprev >= 0 /\ iprev < s.width /\ jprev >= 0 /\ jprev < s.height
        THEN <<iprev, jprev>> ELSE <<>>

\* a pull that reads the array it is writing
CppPullCellInPlace(s, i, j) ==
    [s EXCEPT !.fTemp[i][j] =
        IF s.obstacle[i][j]
        THEN [k \in Dirs |-> s.fTemp[i][j][opp[k]]]
        ELSE [k \in Dirs |->
                 LET src == CppSource(s, i, j, k)
                 IN  IF src # <<>> THEN s.fTemp[src[1]][src[2]][k] ELSE s.fTemp[i][j][k]]]
\* one iteration of the loop body: the swaps of a solid cell, the pull of a
\* fluid cell; reads f, writes fTemp
CppPullCell(s, i, j) ==
    [s EXCEPT !.fTemp[i][j] =
        IF s.obstacle[i][j]
        THEN [k \in Dirs |-> s.fTemp[i][j][opp[k]]]
        ELSE [k \in Dirs |->
                 LET src == CppSource(s, i, j, k)
                 IN  IF src # <<>> THEN s.f[src[1]][src[2]][k] ELSE s.fTemp[i][j][k]]]

\* iterations n, n + 1, ... of the loops: i outside, j inside
RECURSIVE CppPullFrom(_, _)
CppPullFrom(s, n) ==
    IF n < s.width * s.height
    THEN CppPullFrom(CppPullCell(s, n \div s.height, n % s.height), n + 1)
    ELSE s

\* copy f to fTemp, pull cell after cell, swap the arrays
CppStreamLoop(s) ==
    LET t == CppPullFrom([s EXCEPT !.fTemp = s.f], 0)
    IN  [t EXCEPT !.f = t.fTemp, !.fTemp = t.f]

CppStep(s) ==
    Computed(CppApplyBoundaryConditions(Computed(CppStreaming(Computed(CppCollision(CppRampUp(s)))))))

\* --- field queries: val::array() filled by push, rows outside, columns inside
RECURSIVE PushRow(_, _, _, _)
PushRow(s, g, j, i) ==
    IF i < s.width THEN <<g[i][j]>> \o PushRow(s, g, j, i + 1) ELSE <<>>

\* an array filled column by column: columns outside, rows inside
PushColumns(s, g, j) ==
    [n \in 1..(s.width * s.height) |-> g[(n - 1) \div s.height][(n - 1) % s.height]]
RECURSIVE PushRows(_, _, _)
PushRows(s, g, j) ==
    IF j < s.height THEN PushRow(s, g, j, 0) \o PushRows(s, g, j + 1) ELSE <<>>

\* sqrt(x), kept exact: the root is represented by its radicand
Sqrt(x) == [sqrt |-> x]

mag(s, i, j) == Sqrt(FAdd(FMul(s.ux[i][j], s.ux[i][j]), FMul(s.uy[i][j], s.uy[i][j])))

\* the cells whose ux or uy the vorticity of cell (i, j) reads
VorticityStencil(s, i, j) ==
    IF i > 0 /\ i < s.width - 1 /\ j > 0 /\ j < s.height - 1
    THEN {<<i + 1, j>>, <<i - 1, j>>, <<i, j + 1>>, <<i, j - 1>>}
    ELSE {}

\* a vorticity that differences on the border cells too, clamping the index
omega_zClamped(s, i, j) ==
    LET ip == Min(i + 1, s.width - 1)
        im == IF i > 0 THEN i - 1 ELSE 0
        jp == Min(j + 1, s.height - 1)
        jm == IF j > 0 THEN j - 1 ELSE 0
    IN  FSub(FDiv(FSub(s.uy[ip][j], s.uy[im][j]), FInt(2)),
             FDiv(FSub(s.ux[i][jp], s.ux[i][jm]), FInt(2)))
omega_z(s, i, j) ==
    IF i > 0 /\ i < s.width - 1 /\ j > 0 /\ j < s.height - 1
    THEN FSub(FDiv(FSub(s.uy[i + 1][j], s.uy[i - 1][j]), FInt(2)),
              FDiv(FSub(s.ux[i][j + 1], s.ux[i][j - 1]), FInt(2)))
    ELSE Zero

p(s, i, j) == FDiv(s.rho[i][j], Three)

getVelocityMagnitude(s) == PushRows(s, [i \in Cols(s) |-> [j \in Rows(s) |-> mag(s, i, j)]], 0)
getVorticity(s) == PushRows(s, [i \in Cols(s) |-> [j \in Rows(s) |-> omega_z(s, i, j)]], 0)
getPressure(s) == PushRows(s, [i \in Cols(s) |-> [j \in Rows(s) |-> p(s, i, j)]], 0)
getObstacle(s) == PushRows(s, s.obstacle, 0)
getUx(s) == PushRows(s, s.ux, 0)
getUy(s) == PushRows(s, s.uy, 0)

CppQueries == {"getVelocityMagnitude", "getVorticity", "getPressure", "getObstacle", "getUx", "getUy"}

CppQuery(s, q) ==
    CASE q = "getVelocityMagnitude" -> getVelocityMagnitude(s)
      [] q = "getVorticity" -> getVorticity(s)
      [] q = "getPressure" -> getPressure(s)
      [] q = "getObstacle" -> getObstacle(s)
      [] q = "getUx" -> getUx(s)
      [] q = "getUy" -> getUy(s)

\* the value of cell (i, j) each query pushes
CppCellValue(s, q, i, j) ==
    CASE q = "getVelocityMagnitude" -> mag(s, i, j)
      [] q = "getVorticity" -> omega_z(s, i, j)
      [] q = "getPressure" -> p(s, i, j)
      [] q = "getObstacle" -> s.obstacle[i][j]
      [] q = "getUx" -> s.ux[i][j]
      [] q = "getUy" -> s.uy[i][j]

\* a query that brings the stored velocity up to date with the populations
CppQueriedRecomputing(s, q) ==
    [s EXCEPT !.ux = [i \in Cols(s) |-> [j \in Rows(s) |->
                         IF s.obstacle[i][j] THEN s.ux[i][j]
                         ELSE FDiv(MomX(s.f[i][j]), Sum9(s.f[i][j]))]]]
\* the solver as a query leaves it: no getter assigns to a member
CppQueried(s, q) == s

\* LBMSolver(w, h): members, default parameters, reset()
CppConstruct(wd, ht) ==
    LET s0 == [width |-> wd, height |-> ht, running |-> FALSE, stepCount |-> 0,
               currentGeometry |-> "circle",
               nu |-> RatInt(0), tau |-> RatInt(0), omega |-> RatInt(0), u0 |-> RatInt(0),
               currentVelocity |-> RatInt(0),
               f |-> [i \in 0..(wd - 1) |-> [j \in 0..(ht - 1) |-> [k \in Dirs |-> FInt(0)]]],
               fTemp |-> [i \in 0..(wd - 1) |-> [j \in 0..(ht - 1) |-> [k \in Dirs |-> FInt(0)]]],
               rho |-> [i \in 0..(wd - 1) |-> [j \in 0..(ht - 1) |-> FInt(1)]],
               ux |-> [i \in 0..(wd - 1) |-> [j \in 0..(ht - 1) |-> FInt(0)]],
               uy |-> [i \in 0..(wd - 1) |-> [j \in 0..(ht - 1) |-> FInt(0)]],
               obstacle |-> [i \in 0..(wd - 1) |-> [j \in 0..(ht - 1) |-> FALSE]]]
    IN  Computed(CppReset(CppSetVelocity(CppSetViscosity(s0, Rat(2, 100)), Rat(15, 100))))

\* ------------------------------------------------------------------------
\* LBMSolverWASM: where render and drawStreamlines look up cell (i, j) in the
\* arrays the solver hands out; the wrapper's width is the solver's
\* ------------------------------------------------------------------------
dataIdx(width, i, j) == j * width + i
idx(width, i, j) == j * width + i

\* the queries render indexes by dataIdx, and drawStreamlines by idx
RenderQueries == {"getVelocityMagnitude", "getVorticity", "getPressure", "getObstacle"}
StreamlineQueries == {"getUx", "getUy", "getObstacle"}

\* ------------------------------------------------------------------------
\* JS LBMSolver
\* ------------------------------------------------------------------------
Undefined == <<>>

JsCx(s) == s.width \div 4
JsCy(s) == s.height \div 2
JsMinDim(s) == Min(s.width, s.height)

JsMark(s, In(_, _)) ==
    [s EXCEPT !.solid = [i \in Cols(s) |-> [j \in Rows(s) |-> s.solid[i][j] \/ In(i, j)]]]

JsCircle(s) ==
    LET radius == Rat(JsMinDim(s), 7)
        In(i, j) == LET dx == RatInt(i - JsCx(s))
                        dy == RatInt(j - JsCy(s))
                    IN  RatLt(RatAdd(RatMul(dx, dx), RatMul(dy, dy)), RatMul(radius, radius))
    IN  JsMark(s, In)

\* i and j run from cx - size and cy - size in steps of one: with a fractional
\* size every i is fractional, solid[i] is undefined, and the first (i, j)
\* inside the grid raises a TypeError before any flag is set.
JsSquareThrows(s) ==
    LET size == Rat(JsMinDim(s), 8)
    IN  /\ size[2] # 1
        /\ \E n \in 0..s.width, m \in 0..s.height :
              LET i == RatAdd(RatSub(RatInt(JsCx(s)), size), RatInt(n))
                  j == RatAdd(RatSub(RatInt(JsCy(s)), size), RatInt(m))
              IN  /\ RatLt(i, RatAdd(RatInt(JsCx(s)), size))
                  /\ RatLt(j, RatAdd(RatInt(JsCy(s)), size))
                  /\ RatLeq(RatInt(0), i) /\ RatLt(i, RatInt(s.width))
                  /\ RatLeq(RatInt(0), j) /\ RatLt(j, RatInt(s.height))

JsSquare(s) ==
    LET size == Rat(JsMinDim(s), 8)
        In(i, j) == /\ size[2] = 1
                    /\ JsCx(s) - size[1] <= i /\ i < JsCx(s) + size[1]
                    /\ JsCy(s) - size[1] <= j /\ j < JsCy(s) + size[1]
    IN  JsMark(s, In)

JsAirfoil(s) ==
    LET chord == (JsMinDim(s) * Milli * 10) \div 35
        thickness == 120
        In(i, j) == LET dx == (i - JsCx(s)) * Milli
                        dy == (j - JsCy(s)) * Milli
                        x_rot == MilliDiv(MilliMul(dx, Cos5) + MilliMul(dy, Sin5), chord)
                        y_rot == MilliDiv(MilliMul(-dx, Sin5) + MilliMul(dy, Cos5), chord)
                        yt == MilliMul(5 * thickness, NacaThickness(IF x_rot < 0 THEN 0 ELSE x_rot))
                    IN  x_rot >= 0 /\ x_rot <= Milli /\ Abs(y_rot) <= yt
    IN  JsMark(s, In)

JsPlate(s) ==
    LET plateLength == Rat(JsMinDim(s), 4)
        In(i, j) == /\ j = JsCy(s)
                    /\ JsCx(s) <= i /\ RatLt(RatInt(i), RatAdd(RatInt(JsCx(s)), plateLength))
    IN  JsMark(s, In)

JsTriangle(s) ==
    LET triSize == Rat(JsMinDim(s), 8)
        In(i, j) == LET dx == RatInt(i - JsCx(s))
                        dy == RatInt(j - JsCy(s))
                        width_at_x == IF RatLt(dx, RatInt(0))
                                      THEN RatMul(RatAdd(RatDiv(triSize, RatInt(2)), dx), Rat(8, 10))
                                      ELSE RatMul(RatSub(triSize, dx), Rat(8, 10))
                    IN  /\ RatLt(RatNeg(RatDiv(triSize, RatInt(2))), dx) /\ RatLt(dx, triSize)
                        /\ RatLt(RatAbs(dy), width_at_x)
    IN  JsMark(s, In)

JsClearSolid(s) == [s EXCEPT !.solid = Grid(s, FALSE)]

JsSetGeometry(s, type) ==
    LET c == JsClearSolid([s EXCEPT !.geometry = type])
    IN  CASE type = "circle"   -> JsCircle(c)
          [] type = "square"   -> JsSquare(c)
          [] type = "airfoil"  -> JsAirfoil(c)
          [] type = "plate"    -> JsPlate(c)
          [] type = "triangle" -> JsTriangle(c)
          [] OTHER             -> c

JsSetGeometryThrows(s, type) == type = "square" /\ JsSquareThrows(s)

\* init() without its trailing setGeometry(this.geometry)
JsInitWithoutGeometry(s) ==
    [s EXCEPT !.currentVelocity = RatInt(0), !.stepCount = 0,
              !.f = Grid(s, [k \in Dirs |-> w[k]]), !.rho = Grid(s, One), !.ux = Grid(s, Zero),
              !.uy = Grid(s, Zero), !.solid = Grid(s, FALSE)]
JsInit(s) ==
    LET cell == [k \in Dirs |-> w[k]]
        z == [s EXCEPT !.currentVelocity = RatInt(0), !.stepCount = 0,
                       !.f = Grid(s, cell), !.rho = Grid(s, One), !.ux = Grid(s, Zero),
                       !.uy = Grid(s, Zero), !.solid = Grid(s, FALSE)]
    IN  JsSetGeometry(z, z.geometry)

JsReset(s) == JsInit(s)

JsSetVelocity(s, u0) == [s EXCEPT !.u0 = u0]

JsSetViscosity(s, nu) ==
    LET t == RatAdd(RatMul(RatInt(3), nu), Rat(1, 2))
    IN  [s EXCEPT !.nu = nu, !.tau = t, !.omega = RatDiv(RatInt(1), t)]

\* computeEquilibrium(rho, ux, uy, feq)
JsComputeEquilibrium(rho, ux_, uy_) ==
    LET ux2 == FMul(ux_, ux_)
        uy2 == FMul(uy_, uy_)
        u2 == FAdd(ux2, uy2)
    IN  [k \in Dirs |->
           LET eu == FAdd(FMul(exF[k], ux_), FMul(eyF[k], uy_))
           IN  FMul(FMul(w[k], rho),
                    FSub(FAdd(FAdd(One, FMul(Three, eu)), FMul(FourAndHalf, FMul(eu, eu))),
                         FMul(OneAndHalf, u2)))]

JsRampUp(s) ==
    IF s.stepCount < rampUpSteps
    THEN [s EXCEPT !.currentVelocity = RatMul(s.u0, RatDiv(RatInt(s.stepCount), RatInt(rampUpSteps))),
                   !.stepCount = s.stepCount + 1]
    ELSE [s EXCEPT !.currentVelocity = s.u0]

\* one non-solid cell of the collision loop (unrolled in the code)
JsCollideCell(fij, omega) ==
    LET rho == Sum9(fij)
        ux_ == FDiv(FAdd(FSub(FSub(FAdd(FSub(fij[1], fij[3]), fij[5]), fij[7]), fij[6]), fij[8]), rho)
        uy_ == FDiv(FSub(FSub(FAdd(FAdd(FSub(fij[2], fij[4]), fij[5]), fij[6]), fij[7]), fij[8]), rho)
        u215 == FMul(OneAndHalf, FAdd(FMul(ux_, ux_), FMul(uy_, uy_)))
        relax(k, eu) ==
            FAdd(fij[k], FMul(omega,
                FSub(FMul(FMul(w[k], rho),
                          FSub(FAdd(FAdd(One, FMul(Three, eu)), FMul(FourAndHalf, FMul(eu, eu))), u215)),
                     fij[k])))
    IN  [rho |-> rho, ux |-> ux_, uy |-> uy_,
         f |-> [k \in Dirs |->
                  CASE k = 0 -> FAdd(fij[0], FMul(omega, FSub(FMul(FMul(w[0], rho), FSub(One, u215)), fij[0])))
                    [] k = 1 -> relax(1, ux_)
                    [] k = 2 -> relax(2, uy_)
                    [] k = 3 -> relax(3, FSub(Zero, ux_))
                    [] k = 4 -> relax(4, FSub(Zero, uy_))
                    [] k = 5 -> relax(5, FAdd(ux_, uy_))
                    [] k = 6 -> relax(6, FAdd(FSub(Zero, ux_), uy_))
                    [] k = 7 -> relax(7, FSub(FSub(Zero, ux_), uy_))
                    [] OTHER -> relax(8, FSub(ux_, uy_))]]

JsCollision(s) ==
    LET om == ToField(s.omega)
        c == Computed([i \in Cols(s) |-> [j \in Rows(s) |->
                IF s.solid[i][j]
                THEN [rho |-> s.rho[i][j], ux |-> s.ux[i][j], uy |-> s.uy[i][j], f |-> s.f[i][j]]
                ELSE JsCollideCell(s.f[i][j], om)]])
    IN  [s EXCEPT !.f   = [i \in Cols(s) |-> [j \in Rows(s) |-> c[i][j].f]],
                  !.rho = [i \in Cols(s) |-> [j \in Rows(s) |-> c[i][j].rho]],
                  !.ux  = [i \in Cols(s) |-> [j \in Rows(s) |-> c[i][j].ux]],
                  !.uy  = [i \in Cols(s) |-> [j \in Rows(s) |-> c[i][j].uy]]]

\* fTemp is allocated on the first step; every step copies f into it, then
\* rewrites f from it
JsStreaming(s) ==
    LET fTemp == s.f
        width == s.width
        height == s.height
        cell(i, j) ==
            LET i1 == i - 1
                j2 == j - 1
                i3 == i + 1
                j4 == j + 1
                old == fTemp[i][j]
            IN  IF s.solid[i][j]
                THEN [k \in Dirs |-> old[opp[k]]]
                ELSE [k \in Dirs |->
                       CASE k = 0 -> old[0]
                         [] k = 1 -> IF i1 >= 0 THEN fTemp[i1][j][1] ELSE old[1]
                         [] k = 2 -> IF j2 >= 0 THEN fTemp[i][j2][2] ELSE old[2]
                         [] k = 3 -> IF i3 < width THEN fTemp[i3][j][3] ELSE old[3]
                         [] k = 4 -> IF j4 < height THEN fTemp[i][j4][4] ELSE old[4]
                         [] k = 5 -> IF i1 >= 0 /\ j2 >= 0 THEN fTemp[i1][j2][5] ELSE old[5]
                         [] k = 6 -> IF i3 < width /\ j2 >= 0 THEN fTemp[i3][j2][6] ELSE old[6]
                         [] k = 7 -> IF i3 < width /\ j4 < height THEN fTemp[i3][j4][7] ELSE old[7]
                         [] OTHER -> IF i1 >= 0 /\ j4 < height THEN fTemp[i1][j4][8] ELSE old[8]]
    IN  [s EXCEPT !.fTemp = fTemp, !.f = [i \in Cols(s) |-> [j \in Rows(s) |-> cell(i, j)]]]

\* the cell the unrolled pull of cell (i, j) reads for population k
JsSource(s, i, j, k) ==
    LET i1 == i - 1
        j2 == j - 1
        i3 == i + 1
        j4 == j + 1
    IN  CASE k = 0 -> <<i, j>>
          [] k = 1 -> IF i1 >= 0 THEN <<i1, j>> ELSE <<>>
          [] k = 2 -> IF j2 >= 0 THEN <<i, j2>> ELSE <<>>
          [] k = 3 -> IF i3 < s.width THEN <<i3, j>> ELSE <<>>
          [] k = 4 -> IF j4 < s.height THEN <<i, j4>> ELSE <<>>
          [] k = 5 -> IF i1 >= 0 /\ j2 >= 0 THEN <<i1, j2>> ELSE <<>>
          [] k = 6 -> IF i3 < s.width /\ j2 >= 0 THEN <<i3, j2>> ELSE <<>>
          [] k = 7 -> IF i3 < s.width /\ j4 < s.height THEN <<i3, j4>> ELSE <<>>
          [] OTHER -> IF i1 >= 0 /\ j4 < s.height THEN <<i1, j4>> ELSE <<>>

\* one iteration of the loop body: reads fTemp, writes f
JsPullCell(s, i, j) ==
    [s EXCEPT !.f[i][j] =
        IF s.solid[i][j]
        THEN [k \in Dirs |-> s.fTemp[i][j][opp[k]]]
        ELSE [k \in Dirs |->
                 LET src == JsSource(s, i, j, k)
                 IN  IF src # <<>> THEN s.fTemp[src[1]][src[2]][k] ELSE s.f[i][j][k]]]

RECURSIVE JsPullFrom(_, _)
JsPullFrom(s, n) ==
    IF n < s.width * s.height
    THEN JsPullFrom(JsPullCell(s, n \div s.height, n % s.height), n + 1)
    ELSE s

\* copy f to fTemp, then rewrite f cell after cell
JsStreamLoop(s) == JsPullFrom([s EXCEPT !.fTemp = s.f], 0)

JsInlet(s) ==
    LET rho == One
        ux_ == ToField(s.currentVelocity)
        uy_ == Zero
        cell == JsComputeEquilibrium(rho, ux_, uy_)
    IN  [s EXCEPT !.rho = [i \in Cols(s) |-> [j \in Rows(s) |-> IF i = 0 THEN rho ELSE s.rho[i][j]]],
                  !.ux  = [i \in Cols(s) |-> [j \in Rows(s) |-> IF i = 0 THEN ux_ ELSE s.ux[i][j]]],
                  !.uy  = [i \in Cols(s) |-> [j \in Rows(s) |-> IF i = 0 THEN uy_ ELSE s.uy[i][j]]],
                  !.f   = [i \in Cols(s) |-> [j \in Rows(s) |-> IF i = 0 THEN cell ELSE s.f[i][j]]]]

JsOutlet(s) ==
    [s EXCEPT !.f = [i \in Cols(s) |-> [j \in Rows(s) |->
                       IF i = s.width - 1 THEN s.f[s.width - 2][j] ELSE s.f[i][j]]]]

\* free-slip swap with f[4] restored from the wrong temporary
JsFreeSlipCellMixed(g) ==
    LET temp2 == g[2]
        temp5 == g[5]
        temp6 == g[6]
    IN  [k \in Dirs |-> CASE k = 2 -> g[4] [] k = 5 -> g[8] [] k = 6 -> g[7]
                          [] k = 4 -> temp5 [] k = 8 -> temp5 [] k = 7 -> temp6 [] OTHER -> g[k]]
\* temp2 = f[2]; temp5 = f[5]; temp6 = f[6]; f[2] = f[4]; f[5] = f[8];
\* f[6] = f[7]; f[4] = temp2; f[8] = temp5; f[7] = temp6
JsFreeSlipCell(g) ==
    LET temp2 == g[2]
        temp5 == g[5]
        temp6 == g[6]
    IN  [k \in Dirs |-> CASE k = 2 -> g[4] [] k = 5 -> g[8] [] k = 6 -> g[7]
                          [] k = 4 -> temp2 [] k = 8 -> temp5 [] k = 7 -> temp6 [] OTHER -> g[k]]

JsFreeSlipRow(s, row) ==
    [s EXCEPT !.f = [i \in Cols(s) |-> [j \in Rows(s) |->
                       IF j = row THEN JsFreeSlipCell(s.f[i][j]) ELSE s.f[i][j]]]]

JsApplyBoundaryConditions(s) ==
    JsFreeSlipRow(JsFreeSlipRow(JsOutlet(JsInlet(s)), 0), s.height - 1)

JsStep(s) ==
    Computed(JsApplyBoundaryConditions(Computed(JsStreaming(Computed(JsCollision(JsRampUp(s)))))))

\* --- render(): the value pass, then the colour pass
\* Math.sqrt and Math.abs of a lattice value: 0 for 0, and for any other value
\* the argument moved into a range of its own above NaN, so that a root, an
\* absolute value and a lattice value are never taken for one another
MathSqrt(x) == IF x = Zero THEN Zero ELSE P + 1 + x
MathAbs(x) == IF x = Zero THEN Zero ELSE P + P + 1 + x

\* the value pass: in velocity mode the speed of every non-solid cell, in
\* vorticity mode the vorticity of every non-solid cell off the border, is
\* stored into rho; pressure mode stores nothing
JsRenderValues(s) ==
    CASE s.visualMode = "velocity" ->
           [s EXCEPT !.rho = [i \in Cols(s) |-> [j \in Rows(s) |->
               IF ~s.solid[i][j]
               THEN MathSqrt(FAdd(FMul(s.ux[i][j], s.ux[i][j]), FMul(s.uy[i][j], s.uy[i][j])))
               ELSE s.rho[i][j]]]]
      [] s.visualMode = "vorticity" ->
           [s EXCEPT !.rho = [i \in Cols(s) |-> [j \in Rows(s) |->
               IF i >= 1 /\ i < s.width - 1 /\ j >= 1 /\ j < s.height - 1 /\ ~s.solid[i][j]
               THEN LET duy_dx == FMul(FSub(s.uy[i + 1][j], s.uy[i - 1][j]), Half)
                        dux_dy == FMul(FSub(s.ux[i][j + 1], s.ux[i][j - 1]), Half)
                    IN  MathAbs(FSub(duy_dx, dux_dy))
               ELSE s.rho[i][j]]]]
      [] OTHER -> s

\* what the colour pass reads for each cell: the mask for a solid cell,
\* rho[i][j] for any other (scaled by 1 / maxVal before it is mapped to a colour)
JsColoured(s) ==
    [i \in Cols(s) |-> [j \in Rows(s) |-> IF s.solid[i][j] THEN "solid" ELSE s.rho[i][j]]]

JsRender(s) == JsRenderValues(s)

JsSetVisualization(s, mode) == [s EXCEPT !.visualMode = mode]

JsConstruct(width, height) ==
    LET s0 == [width |-> width, height |-> height,
               u0 |-> Rat(1, 10), nu |-> Rat(2, 100),
               tau |-> RatAdd(RatMul(RatInt(3), Rat(2, 100)), Rat(1, 2)),
               omega |-> RatDiv(RatInt(1), RatAdd(RatMul(RatInt(3), Rat(2, 100)), Rat(1, 2))),
               currentVelocity |-> RatInt(0), stepCount |-> 0,
               f |-> <<>>, rho |-> <<>>, ux |-> <<>>, uy |-> <<>>, solid |-> <<>>,
               fTemp |-> Undefined,
               running |-> FALSE, geometry |-> "circle", visualMode |-> "velocity", showMesh |-> FALSE]
    IN  Computed(JsInit(s0))

\* ------------------------------------------------------------------------
\* LBMCavity
\* ------------------------------------------------------------------------
Cells(s) == 0..(s.size - 1)
Square(s, v) == [i \in Cells(s) |-> [j \in Cells(s) |-> v]]
W0 == Frac(4, 9)
W1 == Frac(1, 9)
W2 == Frac(1, 36)
Sixth == Frac(1, 6)
Two == FInt(2)
Nine == FInt(9)
Eighteen == FInt(18)
ThirtySix == FInt(36)

\* a[i][j] = val(i, j) for every (i, j) an assignment of the stage targets
Put(a, hit(_, _), val(_, _)) ==
    [i \in DOMAIN a |-> [j \in DOMAIN a[i] |-> IF hit(i, j) THEN val(i, j) ELSE a[i][j]]]

CavInitArrays(s) ==
    [s EXCEPT !.f00 = Square(s, W0), !.f00S = Square(s, W0),
              !.fp0 = Square(s, W1), !.fp0S = Square(s, W1),
              !.fm0 = Square(s, W1), !.fm0S = Square(s, W1),
              !.f0p = Square(s, W1), !.f0pS = Square(s, W1),
              !.f0m = Square(s, W1), !.f0mS = Square(s, W1),
              !.fpp = Square(s, W2), !.fppS = Square(s, W2),
              !.fpm = Square(s, W2), !.fpmS = Square(s, W2),
              !.fmp = Square(s, W2), !.fmpS = Square(s, W2),
              !.fmm = Square(s, W2), !.fmmS = Square(s, W2),
              !.ux = Square(s, Zero), !.uy = Square(s, Zero), !.rho = Square(s, One)]

\* a reset that leaves one population array, fmm, as the run left it
CavResetAllButOne(s) ==
    [s EXCEPT !.f00 = Square(s, W0), !.fp0 = Square(s, W1), !.fm0 = Square(s, W1),
              !.f0p = Square(s, W1), !.f0m = Square(s, W1),
              !.fpp = Square(s, W2), !.fpm = Square(s, W2), !.fmp = Square(s, W2),
              !.ux = Square(s, Zero), !.uy = Square(s, Zero), !.rho = Square(s, One)]
CavReset(s) ==
    [s EXCEPT !.f00 = Square(s, W0), !.fp0 = Square(s, W1), !.fm0 = Square(s, W1),
              !.f0p = Square(s, W1), !.f0m = Square(s, W1),
              !.fpp = Square(s, W2), !.fpm = Square(s, W2), !.fmp = Square(s, W2),
              !.fmm = Square(s, W2),
              !.ux = Square(s, Zero), !.uy = Square(s, Zero), !.rho = Square(s, One)]

CavSetLidVelocity(s, velocity) == [s EXCEPT !.lidVelocity = velocity]

\* setViscosity that stores the viscosity and keeps the old omega
CavSetViscosityStale(s, viscosity) == [s EXCEPT !.viscosity = viscosity]
CavSetViscosity(s, viscosity) ==
    [s EXCEPT !.viscosity = viscosity,
              !.omega = RatDiv(RatInt(1), RatAdd(RatMul(RatInt(3), viscosity), Rat(1, 2)))]

\* density, velocity, equilibrium and BGK relaxation of one interior cell
CavCollideCell(s, i, j, omega) ==
    LET rho == FAdd(FAdd(FAdd(FAdd(FAdd(FAdd(FAdd(FAdd(s.fmp[i][j], s.f0p[i][j]), s.fpp[i][j]),
                        s.fm0[i][j]), s.f00[i][j]), s.fp0[i][j]), s.fmm[i][j]), s.f0m[i][j]), s.fpm[i][j])
        ux_ == FDiv(FSub(FSub(FSub(FAdd(FAdd(s.fp0[i][j], s.fpp[i][j]), s.fpm[i][j]),
                        s.fm0[i][j]), s.fmm[i][j]), s.fmp[i][j]), rho)
        uy_ == FDiv(FSub(FSub(FSub(FAdd(FAdd(s.f0p[i][j], s.fpp[i][j]), s.fmp[i][j]),
                        s.f0m[i][j]), s.fmm[i][j]), s.fpm[i][j]), rho)
        ux2 == FMul(ux_, ux_)
        uy2 == FMul(uy_, uy_)
        \* 1 + 3*(-1 + u)*u,  1 + 3*u*(1 + u),  -2 + 3*u2
        minus(u) == FAdd(One, FMul(FMul(Three, FAdd(FSub(Zero, One), u)), u))
        plus(u) == FAdd(One, FMul(FMul(Three, u), FAdd(One, u)))
        rest(u2) == FAdd(FSub(Zero, Two), FMul(Three, u2))
        feq00 == FDiv(FMul(FMul(rho, rest(ux2)), rest(uy2)), Nine)
        feqm0 == FDiv(FSub(Zero, FMul(FMul(rho, minus(ux_)), rest(uy2))), Eighteen)
        feqp0 == FDiv(FSub(Zero, FMul(FMul(rho, plus(ux_)), rest(uy2))), Eighteen)
        feq0m == FDiv(FSub(Zero, FMul(FMul(rho, minus(uy_)), rest(ux2))), Eighteen)
        feq0p == FDiv(FSub(Zero, FMul(FMul(rho, plus(uy_)), rest(ux2))), Eighteen)
        feqmm == FDiv(FMul(FMul(rho, minus(ux_)), minus(uy_)), ThirtySix)
        feqpp == FDiv(FMul(FMul(rho, plus(ux_)), plus(uy_)), ThirtySix)
        feqpm == FDiv(FMul(FMul(rho, plus(ux_)), minus(uy_)), ThirtySix)
        feqmp == FDiv(FMul(FMul(rho, minus(ux_)), plus(uy_)), ThirtySix)
        relax(fv, feq) == FSub(fv, FMul(omega, FSub(fv, feq)))
    IN  [rho |-> rho, ux |-> ux_, uy |-> uy_,
         f00 |-> relax(s.f00[i][j], feq00),
         fm0 |-> relax(s.fm0[i][j], feqm0), fp0 |-> relax(s.fp0[i][j], feqp0),
         f0m |-> relax(s.f0m[i][j], feq0m), f0p |-> relax(s.f0p[i][j], feq0p),
         fpp |-> relax(s.fpp[i][j], feqpp), fpm |-> relax(s.fpm[i][j], feqpm),
         fmp |-> relax(s.fmp[i][j], feqmp), fmm |-> relax(s.fmm[i][j], feqmm)]

CavInterior(s, i, j) == 1 <= i /\ i < s.size - 1 /\ 1 <= j /\ j < s.size - 1

\* collision + push streaming over the interior cells
CavCollideAndPush(s) ==
    LET om == ToField(s.omega)
        c == Computed([i \in Cells(s) |-> [j \in Cells(s) |->
                IF CavInterior(s, i, j) THEN CavCollideCell(s, i, j, om) ELSE [rho |-> Zero]]])
        in(i, j) == CavInterior(s, i, j)
    IN  [s EXCEPT
          !.rho  = Put(s.rho, in, LAMBDA i, j : c[i][j].rho),
          !.ux   = Put(s.ux, in, LAMBDA i, j : c[i][j].ux),
          !.uy   = Put(s.uy, in, LAMBDA i, j : c[i][j].uy),
          !.f00S = Put(s.f00S, in, LAMBDA i, j : c[i][j].f00),
          !.fm0S = Put(s.fm0S, LAMBDA i, j : in(i + 1, j), LAMBDA i, j : c[i + 1][j].fm0),
          !.fp0S = Put(s.fp0S, LAMBDA i, j : in(i - 1, j), LAMBDA i, j : c[i - 1][j].fp0),
          !.f0mS = Put(s.f0mS, LAMBDA i, j : in(i, j + 1), LAMBDA i, j : c[i][j + 1].f0m),
          !.f0pS = Put(s.f0pS, LAMBDA i, j : in(i, j - 1), LAMBDA i, j : c[i][j - 1].f0p),
          !.fppS = Put(s.fppS, LAMBDA i, j : in(i - 1, j - 1), LAMBDA i, j : c[i - 1][j - 1].fpp),
          !.fpmS = Put(s.fpmS, LAMBDA i, j : in(i - 1, j + 1), LAMBDA i, j : c[i - 1][j + 1].fpm),
          !.fmpS = Put(s.fmpS, LAMBDA i, j : in(i + 1, j - 1), LAMBDA i, j : c[i + 1][j - 1].fmp),
          !.fmmS = Put(s.fmmS, LAMBDA i, j : in(i + 1, j + 1), LAMBDA i, j : c[i + 1][j + 1].fmm)]

\* for (j = 1; j < jmax; j++): left wall (i = 0), right wall (i = imax)
CavLeftRightWalls(s) ==
    LET imax == s.size - 1
        jmax == s.size - 1
        wall(j) == 1 <= j /\ j < jmax
    IN  [s EXCEPT
          !.fp0S = Put(s.fp0S, LAMBDA i, j : i = 1 /\ wall(j), LAMBDA i, j : s.fm0[0][j]),
          !.fppS = Put(s.fppS, LAMBDA i, j : i = 1 /\ wall(j - 1), LAMBDA i, j : s.fmm[0][j - 1]),
          !.fpmS = Put(s.fpmS, LAMBDA i, j : i = 1 /\ wall(j + 1), LAMBDA i, j : s.fmp[0][j + 1]),
          !.fm0S = Put(s.fm0S, LAMBDA i, j : i = imax - 1 /\ wall(j), LAMBDA i, j : s.fp0[imax][j]),
          !.fmpS = Put(s.fmpS, LAMBDA i, j : i = imax - 1 /\ wall(j - 1), LAMBDA i, j : s.fpm[imax][j - 1]),
          !.fmmS = Put(s.fmmS, LAMBDA i, j : i = imax - 1 /\ wall(j + 1), LAMBDA i, j : s.fpp[imax][j + 1])]

\* for (i = 1; i < imax; i++): top wall (j = jmax, moving lid), bottom wall (j = 0)
CavTopBottomWalls(s) ==
    LET imax == s.size - 1
        jmax == s.size - 1
        u == ToField(s.lidVelocity)
        wall(i) == 1 <= i /\ i < imax
    IN  [s EXCEPT
          !.f0mS = Put(s.f0mS, LAMBDA i, j : j = jmax - 1 /\ wall(i), LAMBDA i, j : s.f0p[i][jmax]),
          !.fmmS = Put(s.fmmS, LAMBDA i, j : j = jmax - 1 /\ wall(i + 1),
                       LAMBDA i, j : FSub(s.fpp[i + 1][jmax], FMul(Sixth, u))),
          !.fpmS = Put(s.fpmS, LAMBDA i, j : j = jmax - 1 /\ wall(i - 1),
                       LAMBDA i, j : FAdd(s.fmp[i - 1][jmax], FMul(Sixth, u))),
          !.f0pS = Put(s.f0pS, LAMBDA i, j : j = 1 /\ wall(i), LAMBDA i, j : s.f0m[i][0]),
          !.fmpS = Put(s.fmpS, LAMBDA i, j : j = 1 /\ wall(i + 1), LAMBDA i, j : s.fmm[i + 1][0]),
          !.fppS = Put(s.fppS, LAMBDA i, j : j = 1 /\ wall(i - 1), LAMBDA i, j : s.fpm[i - 1][0])]

CavCorners(s) ==
    LET imax == s.size - 1
        jmax == s.size - 1
    IN  [s EXCEPT
          !.fppS = Put(s.fppS, LAMBDA i, j : i = 1 /\ j = 1, LAMBDA i, j : s.fmm[0][0]),
          !.fmpS = Put(s.fmpS, LAMBDA i, j : i = 1 /\ j = jmax - 1, LAMBDA i, j : s.fpm[0][jmax]),
          !.fpmS = Put(s.fpmS, LAMBDA i, j : i = imax - 1 /\ j = 1, LAMBDA i, j : s.fmp[imax][0]),
          !.fmmS = Put(s.fmmS, LAMBDA i, j : i = imax - 1 /\ j = jmax - 1, LAMBDA i, j : s.fpp[imax][jmax])]

CavSwap(s) ==
    [s EXCEPT !.f00 = s.f00S, !.f00S = s.f00, !.fp0 = s.fp0S, !.fp0S = s.fp0,
              !.fm0 = s.fm0S, !.fm0S = s.fm0, !.f0p = s.f0pS, !.f0pS = s.f0p,
              !.f0m = s.f0mS, !.f0mS = s.f0m, !.fpp = s.fppS, !.fppS = s.fpp,
              !.fpm = s.fpmS, !.fpmS = s.fpm, !.fmp = s.fmpS, !.fmpS = s.fmp,
              !.fmm = s.fmmS, !.fmmS = s.fmm]

CavStep(s) ==
    Computed(CavSwap(CavCorners(Computed(CavTopBottomWalls(Computed(CavLeftRightWalls(
        Computed(CavCollideAndPush(s)))))))))

CavConstruct(size) ==
    LET s0 == [size |-> size, running |-> FALSE, visualMode |-> "velocity", showMesh |-> FALSE,
               showStreamlines |-> FALSE,
               lidVelocity |-> Rat(1, 10), viscosity |-> Rat(2, 100),
               omega |-> RatDiv(RatInt(1), RatAdd(RatMul(RatInt(3), Rat(2, 100)), Rat(1, 2))),
               f00 |-> <<>>, fp0 |-> <<>>, fm0 |-> <<>>, f0p |-> <<>>, f0m |-> <<>>,
               fpp |-> <<>>, fpm |-> <<>>, fmp |-> <<>>, fmm |-> <<>>,
               f00S |-> <<>>, fp0S |-> <<>>, fm0S |-> <<>>, f0pS |-> <<>>, f0mS |-> <<>>,
               fppS |-> <<>>, fpmS |-> <<>>, fmpS |-> <<>>, fmmS |-> <<>>,
               ux |-> <<>>, uy |-> <<>>, rho |-> <<>>]
    IN  Computed(CavReset(CavInitArrays(s0)))

CavSetVisualization(s, mode) == [s EXCEPT !.visualMode = mode]

\* --- render(): values.push(...) in the order of the loops, i outside and j
\* inside, then the colour pass reading values[dataIdx]
CavSpeed(s, i, j) == MathSqrt(FAdd(FMul(s.ux[i][j], s.ux[i][j]), FMul(s.uy[i][j], s.uy[i][j])))

CavVort(s, i, j) ==
    LET duydx == FDiv(FSub(s.uy[i + 1][j], s.uy[i - 1][j]), Two)
        duxdy == FDiv(FSub(s.ux[i][j + 1], s.ux[i][j - 1]), Two)
    IN  MathAbs(FSub(duydx, duxdy))

CavPressure(s, i, j) == FDiv(s.rho[i][j], Three)

CavRenderValues(s) ==
    LET inner == s.size - 2
    IN  CASE s.visualMode = "velocity" ->
               [n \in 1..(s.size * s.size) |-> CavSpeed(s, (n - 1) \div s.size, (n - 1) % s.size)]
          [] s.visualMode = "vorticity" ->
               [n \in 1..(inner * inner) |->
                   CavVort(s, 1 + ((n - 1) \div inner), 1 + ((n - 1) % inner))]
          [] s.visualMode = "pressure" ->
               [n \in 1..(s.size * s.size) |-> CavPressure(s, (n - 1) \div s.size, (n - 1) % s.size)]
          [] OTHER -> <<>>

\* dataIdx of the colour pass for cell (i, j)
CavDataIdx(s, i, j) ==
    IF s.visualMode = "vorticity"
    THEN IF i = 0 \/ i = s.size - 1 \/ j = 0 \/ j = s.size - 1
         THEN -1
         ELSE (j - 1) * (s.size - 2) + (i - 1)
    ELSE j * s.size + i

\* what the colour pass reads for each cell: values[dataIdx], or 0 when
\* dataIdx < 0 (scaled by 1 / maxVal before it is mapped to a colour);
\* values[dataIdx] past the end of the list is undefined, a NaN once scaled
CavColoured(s) ==
    LET values == CavRenderValues(s)
    IN  [i \in Cells(s) |-> [j \in Cells(s) |->
            LET at == CavDataIdx(s, i, j)
            IN  IF at >= 0
                THEN IF at < Len(values) THEN values[at + 1] ELSE NaN
                ELSE Zero]]

\* ------------------------------------------------------------------------
\* State: the solver objects of the page, and what the caller last did
\* ------------------------------------------------------------------------
VARIABLES
    cpp,      \* the C++ LBMSolver instance, or NoSolver
    js,       \* the JS LBMSolver instance, or NoSolver
    cav,      \* the LBMCavity instance, or NoSolver
    lastOp,   \* name of the last call made on the instance
    outcome,  \* how that call ended: "ok" or the error it raised
    ticks,    \* step() calls since the instance was constructed or last reset
    returned, \* what the last call handed back: a field query's array, or Void
    page,     \* the page driver: animation frames and timers, or NoPage
    wasm      \* the LBMSolverWASM instances and the jobs they wait on, or NoWasm

vars == <<cpp, js, cav, lastOp, outcome, ticks, returned, page, wasm>>

NoPage == [class |-> "none"]
NoWasm == [class |-> "none"]

\* what a call that returns nothing leaves in returned
Void == <<>>

NoSolver == [class |-> "none"]

\* bounds of the explored inputs
MinWidth == 6
MaxWidth == 6
MinHeight == 5
MaxHeight == 5
MinSize == 3
MaxSize == 4
MaxTicks == 2

Widths == MinWidth..MaxWidth
Heights == MinHeight..MaxHeight
Sizes == MinSize..MaxSize
Viscosities == {Rat(2, 100), Rat(1, 6)}
Velocities == {RatInt(0), Rat(1, 10)}
GeometryNames == {"circle", "square", "airfoil", "flat_plate", "plate", "triangle", "none"}

\* --- calls on the C++ solver
CppSetViscosityCall(nu) ==
    /\ cpp # NoSolver
    /\ cpp' = CppSetViscosity(cpp, nu)
    /\ lastOp' = "setViscosity" /\ outcome' = "ok"
    /\ returned' = Void
    /\ UNCHANGED <<page, wasm>>
    /\ UNCHANGED <<js, cav, ticks>>

CppSetVelocityCall(u0) ==
    /\ cpp # NoSolver
    /\ cpp' = CppSetVelocity(cpp, u0)
    /\ lastOp' = "setVelocity" /\ outcome' = "ok"
    /\ returned' = Void
    /\ UNCHANGED <<page, wasm>>
    /\ UNCHANGED <<js, cav, ticks>>

CppSetGeometryCall(geom) ==
    /\ cpp # NoSolver
    /\ cpp' = Computed(CppSetGeometry(cpp, geom))
    /\ lastOp' = "setGeometry" /\ outcome' = "ok"
    /\ returned' = Void
    /\ UNCHANGED <<page, wasm>>
    /\ ticks' = 0
    /\ UNCHANGED <<js, cav>>

CppResetCall ==
    /\ cpp # NoSolver
    /\ cpp' = Computed(CppReset(cpp))
    /\ lastOp' = "reset" /\ outcome' = "ok"
    /\ returned' = Void
    /\ UNCHANGED <<page, wasm>>
    /\ ticks' = 0
    /\ UNCHANGED <<js, cav>>

\* applyBoundaryConditions indexes f[0] and f[width - 2] whenever there is a row,
\* and f[i][0] whenever there is a column: out of bounds (undefined behaviour) on
\* a grid with fewer than two columns or without a row
CppStepUndefined(s) == (s.height > 0 /\ s.width < 2) \/ (s.width > 0 /\ s.height < 1)

CppStepCall ==
    /\ cpp # NoSolver
    /\ IF CppStepUndefined(cpp)
       THEN \/ cpp' = CppRampUp(cpp) /\ outcome' = "ok"
            \/ cpp' = NoSolver /\ outcome' = "trap"
       ELSE cpp' = CppStep(cpp) /\ outcome' = "ok"
    /\ lastOp' = "step"
    /\ returned' = Void
    /\ UNCHANGED <<page, wasm>>
    /\ ticks' = ticks + 1
    /\ UNCHANGED <<js, cav>>

CppQueryCall(q) ==
    /\ cpp # NoSolver
    /\ cpp' = CppQueried(cpp, q)
    /\ returned' = CppQuery(cpp, q)
    /\ UNCHANGED <<page, wasm>>
    /\ lastOp' = q /\ outcome' = "ok"
    /\ UNCHANGED <<js, cav, ticks>>


\* --- calls on the JS solver
JsSetViscosityCall(nu) ==
    /\ js # NoSolver
    /\ js' = JsSetViscosity(js, nu)
    /\ lastOp' = "setViscosity" /\ outcome' = "ok"
    /\ returned' = Void
    /\ UNCHANGED <<page, wasm>>
    /\ UNCHANGED <<cpp, cav, ticks>>

JsSetVelocityCall(u0) ==
    /\ js # NoSolver
    /\ js' = JsSetVelocity(js, u0)
    /\ lastOp' = "setVelocity" /\ outcome' = "ok"
    /\ returned' = Void
    /\ UNCHANGED <<page, wasm>>
    /\ UNCHANGED <<cpp, cav, ticks>>

JsSetGeometryCall(type) ==
    /\ js # NoSolver
    /\ js' = Computed(JsSetGeometry(js, type))
    /\ lastOp' = "setGeometry"
    /\ returned' = Void
    /\ UNCHANGED <<page, wasm>>
    /\ outcome' = IF JsSetGeometryThrows(js, type) THEN "TypeError" ELSE "ok"
    /\ UNCHANGED <<cpp, cav, ticks>>

JsResetCall ==
    /\ js # NoSolver
    /\ js' = Computed(JsReset(js))
    /\ lastOp' = "reset"
    /\ returned' = Void
    /\ UNCHANGED <<page, wasm>>
    /\ outcome' = IF JsSetGeometryThrows(js, js.geometry) THEN "TypeError" ELSE "ok"
    /\ ticks' = 0
    /\ UNCHANGED <<cpp, cav>>

\* new Array(n) raises a RangeError for n < 0 (the lazy allocation of fTemp);
\* rho[0], f[width - 2] and f[i][0] are undefined on a grid with fewer than two
\* columns or without a row, and reading an element of undefined raises a TypeError
JsStepError(s) ==
    CASE s.fTemp = Undefined /\ (s.width < 0 \/ (s.width > 0 /\ s.height < 0)) -> "RangeError"
      [] (s.height > 0 /\ s.width < 2) \/ (s.width > 0 /\ s.height < 1) -> "TypeError"
      [] OTHER -> "ok"

\* the state step() leaves behind when it raises
JsStepAborted(s) ==
    CASE JsStepError(s) = "RangeError" /\ s.width < 0 -> JsRampUp(s)
      [] JsStepError(s) = "RangeError" -> [JsRampUp(s) EXCEPT !.fTemp = [i \in Cols(s) |-> <<>>]]
      [] OTHER -> JsStreaming(JsCollision(JsRampUp(s)))

JsStepCall ==
    /\ js # NoSolver
    /\ js' = IF JsStepError(js) = "ok" THEN JsStep(js) ELSE JsStepAborted(js)
    /\ lastOp' = "step" /\ outcome' = JsStepError(js)
    /\ returned' = Void
    /\ UNCHANGED <<page, wasm>>
    /\ ticks' = ticks + 1
    /\ UNCHANGED <<cpp, cav>>

JsSetVisualizationCall(mode) ==
    /\ js # NoSolver
    /\ js' = JsSetVisualization(js, mode)
    /\ lastOp' = "setVisualization" /\ outcome' = "ok"
    /\ returned' = Void
    /\ UNCHANGED <<page, wasm>>
    /\ UNCHANGED <<cpp, cav, ticks>>

\* render() returns nothing; returned holds what it drew from
JsRenderCall ==
    /\ js # NoSolver
    /\ js' = Computed(JsRender(js))
    /\ lastOp' = "render" /\ outcome' = "ok"
    /\ returned' = JsColoured(JsRender(js))
    /\ UNCHANGED <<page, wasm>>
    /\ UNCHANGED <<cpp, cav, ticks>>

\* --- calls on the cavity solver
CavSetViscosityCall(nu) ==
    /\ cav # NoSolver
    /\ cav' = CavSetViscosity(cav, nu)
    /\ lastOp' = "setViscosity" /\ outcome' = "ok"
    /\ returned' = Void
    /\ UNCHANGED <<page, wasm>>
    /\ UNCHANGED <<cpp, js, ticks>>

CavSetLidVelocityCall(u) ==
    /\ cav # NoSolver
    /\ cav' = CavSetLidVelocity(cav, u)
    /\ lastOp' = "setLidVelocity" /\ outcome' = "ok"
    /\ returned' = Void
    /\ UNCHANGED <<page, wasm>>
    /\ UNCHANGED <<cpp, js, ticks>>

CavResetCall ==
    /\ cav # NoSolver
    /\ cav' = Computed(CavReset(cav))
    /\ lastOp' = "reset" /\ outcome' = "ok"
    /\ returned' = Void
    /\ UNCHANGED <<page, wasm>>
    /\ ticks' = 0
    /\ UNCHANGED <<cpp, js>>

CavSetVisualizationCall(mode) ==
    /\ cav # NoSolver
    /\ cav' = CavSetVisualization(cav, mode)
    /\ lastOp' = "setVisualization" /\ outcome' = "ok"
    /\ returned' = Void
    /\ UNCHANGED <<page, wasm>>
    /\ UNCHANGED <<cpp, js, ticks>>

\* render() returns nothing; returned holds what it drew from
CavRenderCall ==
    /\ cav # NoSolver
    /\ cav' = cav
    /\ lastOp' = "render" /\ outcome' = "ok"
    /\ returned' = CavColoured(cav)
    /\ UNCHANGED <<page, wasm>>
    /\ UNCHANGED <<cpp, js, ticks>>

\* with size < 2 the loops are empty and the first corner rule reads fppS[1],
\* which is undefined: a TypeError before anything is written or swapped
CavStepThrows(s) == s.size < 2

CavStepCall ==
    /\ cav # NoSolver
    /\ cav' = IF CavStepThrows(cav) THEN cav ELSE CavStep(cav)
    /\ lastOp' = "step" /\ outcome' = IF CavStepThrows(cav) THEN "TypeError" ELSE "ok"
    /\ returned' = Void
    /\ UNCHANGED <<page, wasm>>
    /\ ticks' = ticks + 1
    /\ UNCHANGED <<cpp, js>>

\* ------------------------------------------------------------------------
\* Spec: one solver of one class, constructed on a valid grid, driven by
\* any sequence of calls; at most MaxTicks steps between two resets
\* ------------------------------------------------------------------------
Init ==
    /\ lastOp = "construct" /\ outcome = "ok" /\ ticks = 0 /\ returned = Void
    /\ page = NoPage /\ wasm = NoWasm
    /\ \/ \E wd \in Widths, ht \in Heights :
             cpp = CppConstruct(wd, ht) /\ js = NoSolver /\ cav = NoSolver
       \/ \E wd \in Widths, ht \in Heights :
             js = JsConstruct(wd, ht) /\ cpp = NoSolver /\ cav = NoSolver
       \/ \E size \in Sizes :
             cav = CavConstruct(size) /\ cpp = NoSolver /\ js = NoSolver

Next ==
    \/ \E nu \in Viscosities : CppSetViscosityCall(nu)
    \/ \E u0 \in Velocities : CppSetVelocityCall(u0)
    \/ \E geom \in GeometryNames : CppSetGeometryCall(geom)
    \/ CppResetCall
    \/ ticks < MaxTicks /\ CppStepCall
    \/ \E nu \in Viscosities : JsSetViscosityCall(nu)
    \/ \E u0 \in Velocities : JsSetVelocityCall(u0)
    \/ \E type \in GeometryNames : JsSetGeometryCall(type)
    \/ JsResetCall
    \/ ticks < MaxTicks /\ JsStepCall
    \/ \E nu \in Viscosities : CavSetViscosityCall(nu)
    \/ \E u \in Velocities : CavSetLidVelocityCall(u)
    \/ CavResetCall
    \/ ticks < MaxTicks /\ CavStepCall

Spec == Init /\ [][Next]_vars

\* ------------------------------------------------------------------------
\* SpecRamp: an open-channel solver stepped through the whole ramp-up; the
\* target velocity is set only before the first tick after construction or
\* reset, so that it is constant over every run of ticks
\* ------------------------------------------------------------------------
RampTicks == 502

InitRamp == Init /\ cav = NoSolver

NextRamp ==
    \/ ticks = 0 /\ \E u0 \in Velocities : CppSetVelocityCall(u0)
    \/ ticks < RampTicks /\ CppStepCall
    \/ CppResetCall
    \/ ticks = 0 /\ \E u0 \in Velocities : JsSetVelocityCall(u0)
    \/ ticks < RampTicks /\ JsStepCall
    \/ JsResetCall

SpecRamp == InitRamp /\ [][NextRamp]_vars

\* ------------------------------------------------------------------------
\* SpecQuery: the C++ solver behind the WASM wrapper, stepped and queried in
\* any order; the target velocity is set only before the first tick of a run
\* ------------------------------------------------------------------------
QueryTicks == 4

InitQuery == Init /\ js = NoSolver /\ cav = NoSolver

NextQuery ==
    \/ ticks = 0 /\ \E u0 \in Velocities : CppSetVelocityCall(u0)
    \/ \E nu \in Viscosities : CppSetViscosityCall(nu)
    \/ \E geom \in GeometryNames : CppSetGeometryCall(geom)
    \/ CppResetCall
    \/ ticks < QueryTicks /\ CppStepCall
    \/ \E q \in CppQueries : CppQueryCall(q)

SpecQuery == InitQuery /\ [][NextQuery]_vars

\* ------------------------------------------------------------------------
\* SpecPair: a C++ solver and a JS solver constructed with the same width and
\* height and given the same calls with the same arguments, one call at a time
\* ------------------------------------------------------------------------
PairSetViscosityCall(nu) ==
    /\ cpp' = CppSetViscosity(cpp, nu) /\ js' = JsSetViscosity(js, nu)
    /\ lastOp' = "setViscosity" /\ outcome' = "ok"
    /\ returned' = Void
    /\ UNCHANGED <<page, wasm>>
    /\ UNCHANGED <<cav, ticks>>

PairSetVelocityCall(u0) ==
    /\ cpp' = CppSetVelocity(cpp, u0) /\ js' = JsSetVelocity(js, u0)
    /\ lastOp' = "setVelocity" /\ outcome' = "ok"
    /\ returned' = Void
    /\ UNCHANGED <<page, wasm>>
    /\ UNCHANGED <<cav, ticks>>

PairSetGeometryCall(name) ==
    /\ cpp' = Computed(CppSetGeometry(cpp, name)) /\ js' = Computed(JsSetGeometry(js, name))
    /\ lastOp' = "setGeometry"
    /\ outcome' = IF JsSetGeometryThrows(js, name) THEN "TypeError" ELSE "ok"
    /\ returned' = Void
    /\ UNCHANGED <<page, wasm>>
    /\ UNCHANGED <<cav, ticks>>

PairResetCall ==
    /\ cpp' = Computed(CppReset(cpp)) /\ js' = Computed(JsReset(js))
    /\ lastOp' = "reset"
    /\ outcome' = IF JsSetGeometryThrows(js, js.geometry) THEN "TypeError" ELSE "ok"
    /\ returned' = Void
    /\ UNCHANGED <<page, wasm>>
    /\ ticks' = 0
    /\ UNCHANGED cav

PairStepCall ==
    /\ cpp' = CppStep(cpp) /\ js' = JsStep(js)
    /\ lastOp' = "step" /\ outcome' = "ok"
    /\ returned' = Void
    /\ UNCHANGED <<page, wasm>>
    /\ ticks' = ticks + 1
    /\ UNCHANGED cav

InitPair ==
    /\ lastOp = "construct" /\ outcome = "ok" /\ ticks = 0 /\ returned = Void
    /\ page = NoPage /\ wasm = NoWasm
    /\ \E wd \in Widths, ht \in Heights :
          cpp = CppConstruct(wd, ht) /\ js = JsConstruct(wd, ht) /\ cav = NoSolver

NextPair ==
    \/ \E nu \in Viscosities : PairSetViscosityCall(nu)
    \/ \E u0 \in Velocities : PairSetVelocityCall(u0)
    \/ \E name \in GeometryNames : PairSetGeometryCall(name)
    \/ PairResetCall
    \/ ticks < MaxTicks /\ PairStepCall

SpecPair == InitPair /\ [][NextPair]_vars

\* ------------------------------------------------------------------------
\* SpecNarrow: an open-channel solver on a grid of NarrowWidth columns, where
\* the shapes, centred at a quarter of the width, reach the inlet column, run
\* for NarrowTicks ticks, long enough for the inlet flow to reach the outlet
\* ------------------------------------------------------------------------
NarrowWidth == 3
NarrowTicks == 4

InitNarrow ==
    /\ lastOp = "construct" /\ outcome = "ok" /\ ticks = 0 /\ returned = Void
    /\ page = NoPage /\ wasm = NoWasm
    /\ cav = NoSolver
    /\ \E ht \in Heights :
          \/ cpp = CppConstruct(NarrowWidth, ht) /\ js = NoSolver
          \/ js = JsConstruct(NarrowWidth, ht) /\ cpp = NoSolver

NextNarrow ==
    \/ \E u0 \in Velocities : CppSetVelocityCall(u0)
    \/ \E geom \in GeometryNames : CppSetGeometryCall(geom)
    \/ CppResetCall
    \/ ticks < NarrowTicks /\ CppStepCall
    \/ \E u0 \in Velocities : JsSetVelocityCall(u0)
    \/ \E type \in GeometryNames : JsSetGeometryCall(type)
    \/ JsResetCall
    \/ ticks < NarrowTicks /\ JsStepCall

SpecNarrow == InitNarrow /\ [][NextNarrow]_vars

\* ------------------------------------------------------------------------
\* SpecFlow: an open-channel solver run for FlowTicks ticks, long enough for
\* the inlet flow to reach the obstacle; shape and target velocity are chosen
\* before the first tick of a run
\* ------------------------------------------------------------------------
FlowTicks == 4

InitFlow == Init /\ cav = NoSolver

NextFlow ==
    \/ ticks = 0 /\ \E u0 \in Velocities : CppSetVelocityCall(u0)
    \/ ticks = 0 /\ \E geom \in GeometryNames : CppSetGeometryCall(geom)
    \/ CppResetCall
    \/ ticks < FlowTicks /\ CppStepCall
    \/ ticks = 0 /\ \E u0 \in Velocities : JsSetVelocityCall(u0)
    \/ ticks = 0 /\ \E type \in GeometryNames : JsSetGeometryCall(type)
    \/ JsResetCall
    \/ ticks < FlowTicks /\ JsStepCall

SpecFlow == InitFlow /\ [][NextFlow]_vars

\* ------------------------------------------------------------------------
\* SpecCavity: the cavity run for CavityTicks ticks, long enough for the lid
\* to set the fluid in motion down to the bottom wall; lid velocity and
\* viscosity are chosen before the first tick after construction or reset
\* ------------------------------------------------------------------------
CavityTicks == 4

InitCavity == Init /\ cpp = NoSolver /\ js = NoSolver

NextCavity ==
    \/ ticks = 0 /\ \E nu \in Viscosities : CavSetViscosityCall(nu)
    \/ ticks = 0 /\ \E u \in Velocities : CavSetLidVelocityCall(u)
    \/ CavResetCall
    \/ ticks < CavityTicks /\ CavStepCall

SpecCavity == InitCavity /\ [][NextCavity]_vars

\* ------------------------------------------------------------------------
\* SpecRender: the JS solver stepped and drawn in any of its three modes, the
\* shape chosen before the first tick of a run
\* ------------------------------------------------------------------------
RenderTicks == 2

VisualModes == {"velocity", "vorticity", "pressure"}

InitRender == Init /\ js # NoSolver

NextRender ==
    \/ ticks = 0 /\ \E type \in GeometryNames : JsSetGeometryCall(type)
    \/ JsResetCall
    \/ ticks < RenderTicks /\ JsStepCall
    \/ \E mode \in VisualModes : JsSetVisualizationCall(mode)
    \/ JsRenderCall

SpecRender == InitRender /\ [][NextRender]_vars

\* ------------------------------------------------------------------------
\* SpecCavityRender: the cavity stepped and drawn in any of its three modes
\* ------------------------------------------------------------------------
InitCavityRender == Init /\ cpp = NoSolver /\ js = NoSolver

NextCavityRender ==
    \/ ticks = 0 /\ \E u \in Velocities : CavSetLidVelocityCall(u)
    \/ CavResetCall
    \/ ticks < CavityTicks /\ CavStepCall
    \/ \E mode \in VisualModes : CavSetVisualizationCall(mode)
    \/ CavRenderCall

SpecCavityRender == InitCavityRender /\ [][NextCavityRender]_vars

\* ------------------------------------------------------------------------
\* The page driver (initLBM) over the JS solver: the animate loop, the
\* Start/Stop and Reset buttons, the geometry select, the auto-restart timers
\* ------------------------------------------------------------------------
stepsPerFrame == 5

\* bounds: handles requestAnimationFrame hands out, steps between two resets
MaxHandles == 3
PageTicks == 10

PageGeometries == {"circle", "square", "none"}

\* lbmAnimationId = null
Null == 0

\* n calls of step() on the JS solver
RECURSIVE JsRun(_, _)
JsRun(s, n) == IF n = 0 THEN s ELSE JsRun(JsStep(s), n - 1)

\* animate(): st holds the solver, the driver and the tick count
PageAnimate(st) ==
    IF st.js.running
    THEN LET h == st.page.handles + 1
         IN  [js |-> JsRender(JsRun(st.js, stepsPerFrame)),
              page |-> [st.page EXCEPT !.frames = @ \cup {h}, !.lbmAnimationId = h, !.handles = h],
              ticks |-> st.ticks + stepsPerFrame]
    ELSE st

\* if (lbmAnimationId) cancelAnimationFrame(lbmAnimationId)
PageCancel(pg) ==
    IF pg.lbmAnimationId # Null THEN [pg EXCEPT !.frames = @ \ {pg.lbmAnimationId}] ELSE pg

\* the calls of animate() are bounded: a handle is left and the run is short
PageMayAnimate == page.handles < MaxHandles /\ ticks + stepsPerFrame <= PageTicks

PageSet(st, op, how) ==
    /\ js' = Computed(st.js) /\ page' = st.page /\ ticks' = st.ticks
    /\ lastOp' = op /\ outcome' = how
    /\ returned' = Void
    /\ UNCHANGED <<cpp, cav, wasm>>

\* startBtn click
PageStartClick ==
    /\ page # NoPage
    /\ IF ~js.running
       THEN /\ PageMayAnimate
            /\ PageSet(PageAnimate([js |-> [js EXCEPT !.running = TRUE], page |-> page, ticks |-> ticks]),
                       "startClick", "ok")
       ELSE PageSet([js |-> [js EXCEPT !.running = FALSE], page |-> PageCancel(page), ticks |-> ticks],
                    "startClick", "ok")

\* resetBtn click; reset() re-creates the shape and raises what setGeometry raises
PageResetClick ==
    /\ page # NoPage
    /\ LET wasRunning == js.running
           stopped == [js EXCEPT !.running = FALSE]
           cancelled == PageCancel(page)
       IN  IF JsSetGeometryThrows(stopped, stopped.geometry)
           THEN PageSet([js |-> JsReset(stopped), page |-> cancelled, ticks |-> 0],
                        "resetClick", "TypeError")
           ELSE PageSet([js |-> JsRender(JsReset(stopped)),
                         page |-> IF wasRunning THEN [cancelled EXCEPT !.timers = @ + 1] ELSE cancelled,
                         ticks |-> 0],
                        "resetClick", "ok")

\* geometrySelect change
PageGeometryChange(type) ==
    /\ page # NoPage
    /\ LET wasRunning == js.running
           stopped == [js EXCEPT !.running = FALSE]
           cancelled == PageCancel(page)
       IN  IF JsSetGeometryThrows(stopped, type)
           THEN PageSet([js |-> JsSetGeometry(stopped, type), page |-> cancelled, ticks |-> ticks],
                        "geometryChange", "TypeError")
           ELSE PageSet([js |-> JsRender(JsSetGeometry(stopped, type)),
                         page |-> IF wasRunning THEN [cancelled EXCEPT !.timers = @ + 1] ELSE cancelled,
                         ticks |-> ticks],
                        "geometryChange", "ok")

\* a 100 ms auto-restart timer fires
PageTimerFires ==
    /\ page # NoPage /\ page.timers > 0
    /\ PageMayAnimate
    /\ PageSet(PageAnimate([js |-> [js EXCEPT !.running = TRUE],
                            page |-> [page EXCEPT !.timers = @ - 1], ticks |-> ticks]),
               "timer", "ok")

\* the browser runs a pending animation frame callback
PageFrameFires(h) ==
    /\ page # NoPage /\ h \in page.frames
    /\ js.running => PageMayAnimate
    /\ PageSet(PageAnimate([js |-> js, page |-> [page EXCEPT !.frames = @ \ {h}], ticks |-> ticks]),
               "frame", "ok")

\* initLBM without LBMSolverWASM: new LBMSolver, the handlers, the initial render
InitPage ==
    /\ lastOp = "initLBM" /\ outcome = "ok" /\ ticks = 0 /\ returned = Void
    /\ cpp = NoSolver /\ cav = NoSolver /\ wasm = NoWasm
    /\ \E wd \in Widths, ht \in Heights : js = Computed(JsRender(JsConstruct(wd, ht)))
    /\ page = [frames |-> {}, lbmAnimationId |-> Null, timers |-> 0, handles |-> 0]

NextPage ==
    \/ PageStartClick
    \/ PageResetClick
    \/ \E type \in PageGeometries : PageGeometryChange(type)
    \/ PageTimerFires
    \/ \E h \in 1..MaxHandles : PageFrameFires(h)

SpecPage == InitPage /\ [][NextPage]_vars

\* ------------------------------------------------------------------------
\* LBMSolverWASM: instances, the shared window.LBMWASMModule, and the jobs
\* (promise reactions) of the page, run first in first out between two tasks
\*
\* wasm.LBMWASMModule  window.LBMWASMModule: NoModule when unset, or the number of the
\*                     Module() call whose result was stored last
\* wasm.factoryCalls   calls of the Module factory so far
\* wasm.inst           the instances, in the order of their construction
\* wasm.jobs           the queue of jobs
\* wasm.ops            operations issued so far, on any instance
\* an instance: wasmReady and solver as in the class; module, the number of
\* the Module() call its initWASM awaits; from, the module its solver was
\* created from; reactions, what waits on its initPromise, in the order of
\* registration; issued and applied, the numbers of the operations called on
\* it and of those that reached its solver, each in order; attached, whether
\* initLBM has added its handlers
\* ------------------------------------------------------------------------
\* bounds: instances constructed, single calls made by code outside initLBM,
\* frames animated
MaxInstances == 2
MaxCalls == 2
MaxFrames == 1

\* window.LBMWASMModule before the first module is stored; no Module() call
\* awaited
NoModule == Null

WasmOps == {"step", "reset", "setGeometry", "render"}

\* this.solver.<name>(...) of the operation's body after await ensureReady()
WasmApplied(solver, name) ==
    CASE name = "step" -> CppStep(solver)
      [] name = "reset" -> CppReset(solver)
      [] name = "setGeometry" -> CppSetGeometry(solver, "none")
      [] OTHER -> CppQueried(CppQueried(solver, "getVelocityMagnitude"), "getObstacle")

\* new LBMSolverWASM: the constructor with initWASM run up to its first await,
\* or to its end when window.LBMWASMModule is set; awaited is TRUE for the
\* instance of initLBM, which goes on with await lbmSolver.initPromise
WasmConstructed(wz, awaited) ==
    LET n == Len(wz.inst) + 1
    IN  IF wz.LBMWASMModule = NoModule
        THEN [wz EXCEPT
                !.factoryCalls = @ + 1,
                !.inst = Append(@, [wasmReady |-> FALSE, solver |-> NoSolver,
                                    module |-> wz.factoryCalls + 1, from |-> NoModule,
                                    reactions |-> IF awaited
                                                  THEN <<[kind |-> "initLBM", inst |-> n, id |-> 0, name |-> ""]>>
                                                  ELSE <<>>,
                                    issued |-> <<>>, applied |-> <<>>, attached |-> FALSE])]
        ELSE [wz EXCEPT
                !.inst = Append(@, [wasmReady |-> TRUE,
                                    solver |-> CppConstruct(MinWidth, MinHeight),
                                    module |-> NoModule, from |-> wz.LBMWASMModule,
                                    reactions |-> <<>>,
                                    issued |-> <<>>, applied |-> <<>>, attached |-> FALSE]),
                !.jobs = IF awaited
                         THEN Append(@, [kind |-> "initLBM", inst |-> n, id |-> 0, name |-> ""])
                         ELSE @]

\* initWASM after await Module(...): store the module, create the solver from
\* window.LBMWASMModule, set wasmReady; initPromise is fulfilled and its
\* reactions become jobs
initWASM(wz, i) ==
    LET stored == wz.inst[i].module
    IN  [wz EXCEPT
           !.LBMWASMModule = stored,
           !.inst[i].solver = CppConstruct(MinWidth, MinHeight),
           !.inst[i].from = stored,
           !.inst[i].wasmReady = TRUE,
           !.inst[i].module = NoModule,
           !.inst[i].reactions = <<>>,
           !.jobs = @ \o wz.inst[i].reactions]

\* an operation called on instance i and not awaited by its caller: it runs
\* to await this.ensureReady(), which has ended when wasmReady is set and
\* otherwise waits on initPromise
WasmIssued(wz, i, name) ==
    LET id == wz.ops + 1
    IN  IF wz.inst[i].wasmReady
        THEN [wz EXCEPT !.ops = id, !.inst[i].issued = Append(@, id),
                        !.jobs = Append(@, [kind |-> "op", inst |-> i, id |-> id, name |-> name])]
        ELSE [wz EXCEPT !.ops = id, !.inst[i].issued = Append(@, id),
                        !.inst[i].reactions =
                            Append(@, [kind |-> "ensureReady", inst |-> i, id |-> id, name |-> name])]

\* the calls of one animation frame: stepsPerFrame times step(), then render()
RECURSIVE WasmFrameIssued(_, _, _)
WasmFrameIssued(wz, i, n) ==
    IF n = 0 THEN WasmIssued(wz, i, "render")
    ELSE WasmFrameIssued(WasmIssued(wz, i, "step"), i, n - 1)

\* the job at the head of the queue
WasmJobRun(wz) ==
    LET job == Head(wz.jobs)
        rest == [wz EXCEPT !.jobs = Tail(@)]
        i == job.inst
    IN  CASE job.kind = "initLBM" ->
               \* initLBM after its await: the handlers, then the initial render
               WasmIssued([rest EXCEPT !.inst[i].attached = TRUE], i, "render")
          [] job.kind = "ensureReady" ->
               \* ensureReady ends; the operation that awaited it is the next job
               [rest EXCEPT !.jobs = Append(@, [job EXCEPT !.kind = "op"])]
          [] OTHER ->
               [rest EXCEPT !.inst[i].solver = Computed(WasmApplied(@, job.name)),
                            !.inst[i].applied = Append(@, job.id)]

WasmSet(wz, op) ==
    /\ wasm' = wz
    /\ lastOp' = op /\ outcome' = "ok"
    /\ returned' = Void
    /\ UNCHANGED <<cpp, js, cav, ticks, page>>

\* a task may start when no job is left
WasmIdle == wasm # NoWasm /\ wasm.jobs = <<>>

\* some script constructs another instance
WasmConstructCall ==
    /\ WasmIdle /\ Len(wasm.inst) < MaxInstances
    /\ WasmSet(WasmConstructed(wasm, FALSE), "construct")

\* the promise of a Module() call is fulfilled
WasmModuleResolves(i) ==
    /\ WasmIdle /\ i \in DOMAIN wasm.inst /\ wasm.inst[i].module # NoModule
    /\ WasmSet(initWASM(wasm, i), "initWASM")

\* some script calls one operation on an instance
WasmIssueCall(i, name) ==
    /\ WasmIdle /\ i \in DOMAIN wasm.inst
    /\ wasm.calls < MaxCalls
    /\ WasmSet([WasmIssued(wasm, i, name) EXCEPT !.calls = @ + 1], name)

\* animate() on the instance of initLBM, once its handlers are there
WasmFrameCall ==
    /\ WasmIdle /\ wasm.inst[1].attached
    /\ wasm.frames < MaxFrames
    /\ WasmSet([WasmFrameIssued(wasm, 1, stepsPerFrame) EXCEPT !.frames = @ + 1], "frame")

WasmJobCall ==
    /\ wasm # NoWasm /\ wasm.jobs # <<>>
    /\ WasmSet(WasmJobRun(wasm), "job")

\* initLBM with LBMSolverWASM defined: new LBMSolverWASM, await initPromise
InitWasm ==
    /\ lastOp = "initLBM" /\ outcome = "ok" /\ ticks = 0 /\ returned = Void
    /\ cpp = NoSolver /\ js = NoSolver /\ cav = NoSolver /\ page = NoPage
    /\ wasm = WasmConstructed([LBMWASMModule |-> NoModule, factoryCalls |-> 0, inst |-> <<>>,
                               jobs |-> <<>>, ops |-> 0, calls |-> 0, frames |-> 0], TRUE)

NextWasm ==
    \/ WasmConstructCall
    \/ \E i \in 1..MaxInstances : WasmModuleResolves(i)
    \/ \E i \in 1..MaxInstances, name \in WasmOps : WasmIssueCall(i, name)
    \/ WasmFrameCall
    \/ WasmJobCall

SpecWasm == InitWasm /\ [][NextWasm]_vars

\* ------------------------------------------------------------------------
\* SpecArgs: construction with any integer dimensions, and setViscosity with
\* any double, the non-finite ones included
\* ------------------------------------------------------------------------
NonFinite == <<0, 0>>
ArgWidths == {-1, 0, MinWidth}
ArgHeights == {-1, 0, MinHeight}
ArgSizes == {-1, 0, MinSize}
ArgViscosities == Viscosities \cup {NonFinite}

\* a negative width or height is converted to a size_t beyond max_size():
\* std::vector raises std::length_error and no object is constructed
CppConstructCall(wd, ht) ==
    /\ cpp = NoSolver /\ js = NoSolver /\ cav = NoSolver
    /\ IF wd < 0 \/ ht < 0
       THEN cpp' = NoSolver /\ outcome' = "length_error"
       ELSE cpp' = CppConstruct(wd, ht) /\ outcome' = "ok"
    /\ lastOp' = "construct" /\ ticks' = 0
    /\ returned' = Void
    /\ UNCHANGED <<page, wasm>>
    /\ UNCHANGED <<js, cav>>

JsConstructCall(width, height) ==
    /\ cpp = NoSolver /\ js = NoSolver /\ cav = NoSolver
    /\ js' = JsConstruct(width, height)
    /\ lastOp' = "construct" /\ outcome' = "ok" /\ ticks' = 0
    /\ returned' = Void
    /\ UNCHANGED <<page, wasm>>
    /\ UNCHANGED <<cpp, cav>>

CavConstructCall(size) ==
    /\ cpp = NoSolver /\ js = NoSolver /\ cav = NoSolver
    /\ cav' = CavConstruct(size)
    /\ lastOp' = "construct" /\ outcome' = "ok" /\ ticks' = 0
    /\ returned' = Void
    /\ UNCHANGED <<page, wasm>>
    /\ UNCHANGED <<cpp, js>>

InitArgs ==
    /\ cpp = NoSolver /\ js = NoSolver /\ cav = NoSolver
    /\ lastOp = "none" /\ outcome = "ok" /\ ticks = 0 /\ returned = Void
    /\ page = NoPage /\ wasm = NoWasm

NextArgs ==
    \/ \E wd \in ArgWidths, ht \in ArgHeights : CppConstructCall(wd, ht)
    \/ \E wd \in ArgWidths, ht \in ArgHeights : JsConstructCall(wd, ht)
    \/ \E size \in ArgSizes : CavConstructCall(size)
    \/ \E nu \in ArgViscosities : CppSetViscosityCall(nu)
    \/ \E nu \in ArgViscosities : JsSetViscosityCall(nu)
    \/ \E nu \in ArgViscosities : CavSetViscosityCall(nu)
    \/ ticks < MaxTicks /\ CppStepCall
    \/ ticks < MaxTicks /\ JsStepCall
    \/ ticks < MaxTicks /\ CavStepCall

SpecArgs == InitArgs /\ [][NextArgs]_vars

\* ------------------------------------------------------------------------
\* Vocabulary of the properties
\* ------------------------------------------------------------------------
RestCell == [k \in Dirs |-> w[k]]

\* every cell at rest equilibrium: f[k] = w[k], (rho, ux, uy) = (1, 0, 0)
ChannelAtRest(s) ==
    /\ s.f = Grid(s, RestCell)
    /\ s.rho = Grid(s, One) /\ s.ux = Grid(s, Zero) /\ s.uy = Grid(s, Zero)

CavAtRest(s) ==
    /\ s.f00 = Square(s, W0)
    /\ s.fp0 = Square(s, W1) /\ s.fm0 = Square(s, W1) /\ s.f0p = Square(s, W1) /\ s.f0m = Square(s, W1)
    /\ s.fpp = Square(s, W2) /\ s.fpm = Square(s, W2) /\ s.fmp = Square(s, W2) /\ s.fmm = Square(s, W2)
    /\ s.rho = Square(s, One) /\ s.ux = Square(s, Zero) /\ s.uy = Square(s, Zero)

\* the shape names each solver's selection recognizes
CppRecognized == {"circle", "airfoil", "square", "flat_plate", "triangle"}
JsRecognized == {"circle", "square", "airfoil", "plate", "triangle"}

\* 1 / (3*nu + 0.5)
Relaxation(nu) == RatDiv(RatInt(1), RatAdd(RatMul(RatInt(3), nu), Rat(1, 2)))

RECURSIVE FSum(_, _)
FSum(g, S) ==
    IF S = {} THEN Zero
    ELSE LET x == CHOOSE y \in S : TRUE IN FAdd(g[x], FSum(g, S \ {x}))

\* sum of the nine populations over the interior (fluid) cells of the cavity
CavInteriorMass(s) ==
    LET interior == {c \in Cells(s) \X Cells(s) : CavInterior(s, c[1], c[2])}
        cellMass == [c \in interior |->
            LET i == c[1]
                j == c[2]
            IN  FAdd(FAdd(FAdd(FAdd(FAdd(FAdd(FAdd(FAdd(s.f00[i][j], s.fp0[i][j]), s.fm0[i][j]),
                    s.f0p[i][j]), s.f0m[i][j]), s.fpp[i][j]), s.fpm[i][j]), s.fmp[i][j]), s.fmm[i][j])]
    IN  FSum(cellMass, interior)

\* the eight moving populations of the cavity by array name: lattice vector
\* (p = +1, m = -1, first letter x, second letter y) and reversed direction
CavMoving == {"fp0", "fm0", "f0p", "f0m", "fpp", "fpm", "fmp", "fmm"}
CavVec == [fp0 |-> <<1, 0>>, fm0 |-> <<-1, 0>>, f0p |-> <<0, 1>>, f0m |-> <<0, -1>>,
           fpp |-> <<1, 1>>, fpm |-> <<1, -1>>, fmp |-> <<-1, 1>>, fmm |-> <<-1, -1>>]
CavOpp == [fp0 |-> "fm0", fm0 |-> "fp0", f0p |-> "f0m", f0m |-> "f0p",
           fpp |-> "fmm", fpm |-> "fmp", fmp |-> "fpm", fmm |-> "fpp"]

\* element n of a JS array (indices from 0)
At(a, n) == a[n + 1]

\* the moments of the populations cell (i, j) holds
CppMoments(s, i, j) ==
    LET rho_local == Sum9(s.f[i][j])
    IN  [rho |-> rho_local,
         ux |-> FDiv(MomX(s.f[i][j]), rho_local),
         uy |-> FDiv(MomY(s.f[i][j]), rho_local)]

\* what a query serves for a cell whose macroscopic fields are m
ServedFor(q, m) ==
    CASE q = "getUx" -> m.ux
      [] q = "getUy" -> m.uy
      [] q = "getPressure" -> FDiv(m.rho, Three)
      [] q = "getVelocityMagnitude" -> Sqrt(FAdd(FMul(m.ux, m.ux), FMul(m.uy, m.uy)))

\* ------------------------------------------------------------------------
\* C1  ramp-up schedule (under SpecRamp)
\* ------------------------------------------------------------------------
\* C1, as amended: over a run of ticks after construct/reset with u0 >= 0 held
\* constant, currentVelocity never decreases from one tick to the next, it is
\* u0 * (n - 1) / rampUpSteps after tick n <= rampUpSteps, and it is exactly u0
\* after tick rampUpSteps + 1 and after every later tick.
C1_RampUp ==
    [][lastOp' = "step" =>
         /\ cpp' # NoSolver =>
              /\ RatLeq(cpp.currentVelocity, cpp'.currentVelocity)
              /\ ticks' <= rampUpSteps =>
                   cpp'.currentVelocity = RatDiv(RatMul(cpp'.u0, RatInt(ticks' - 1)), RatInt(rampUpSteps))
              /\ ticks' >= rampUpSteps + 1 => cpp'.currentVelocity = cpp'.u0
         /\ js' # NoSolver =>
              /\ RatLeq(js.currentVelocity, js'.currentVelocity)
              /\ ticks' <= rampUpSteps =>
                   js'.currentVelocity = RatDiv(RatMul(js'.u0, RatInt(ticks' - 1)), RatInt(rampUpSteps))
              /\ ticks' >= rampUpSteps + 1 => js'.currentVelocity = js'.u0]_vars

\* C1 witness: a solver with a positive target has just taken tick
\* rampUpSteps + 1 and runs at the target velocity
C1_RampCompleted ==
    /\ lastOp = "step" /\ ticks = rampUpSteps + 1
    /\ js # NoSolver /\ js.u0 = Rat(1, 10) /\ js.currentVelocity = js.u0

\* C1, as stated: currentVelocity does not decrease over the ticks up to
\* rampUpSteps and is exactly u0 after tick rampUpSteps and every later tick.
C1_AsStated ==
    [][lastOp' = "step" =>
         /\ cpp' # NoSolver =>
              /\ ticks' <= rampUpSteps => RatLeq(cpp.currentVelocity, cpp'.currentVelocity)
              /\ ticks' >= rampUpSteps => cpp'.currentVelocity = cpp'.u0
         /\ js' # NoSolver =>
              /\ ticks' <= rampUpSteps => RatLeq(js.currentVelocity, js'.currentVelocity)
              /\ ticks' >= rampUpSteps => js'.currentVelocity = js'.u0]_vars

\* ------------------------------------------------------------------------
\* C2  setGeometry as a full reset
\* ------------------------------------------------------------------------
\* C2, as stated: right after setGeometry, in either open-channel solver,
\* stepCount = 0, currentVelocity = 0 and every cell is at rest equilibrium.
C2_SetGeometryResets ==
    lastOp = "setGeometry" =>
        /\ cpp # NoSolver =>
             cpp.stepCount = 0 /\ cpp.currentVelocity = RatInt(0) /\ ChannelAtRest(cpp)
        /\ js # NoSolver =>
             js.stepCount = 0 /\ js.currentVelocity = RatInt(0) /\ ChannelAtRest(js)

C4_UnrecognizedKeepsMask ==
    [][lastOp' = "setGeometry" =>
         /\ (cpp' # NoSolver /\ cpp'.currentGeometry \notin CppRecognized) => cpp'.obstacle = cpp.obstacle
         /\ (js' # NoSolver /\ js'.geometry \notin JsRecognized) => js'.solid = js.solid]_vars

\* ------------------------------------------------------------------------
\* C5  the mask after setGeometry depends on the shape and the grid only
\* ------------------------------------------------------------------------
\* C5: right after setGeometry(s), whatever calls came before, the solid mask
\* is the mask setGeometry(s) gives on a freshly constructed solver of the
\* same dimensions.
C5_MaskOfShapeOnly ==
    lastOp = "setGeometry" =>
        /\ cpp # NoSolver =>
             cpp.obstacle = CppSetGeometry(CppConstruct(cpp.width, cpp.height), cpp.currentGeometry).obstacle
        /\ js # NoSolver =>
             js.solid = JsSetGeometry(JsConstruct(js.width, js.height), js.geometry).solid

\* C5 witness: the C++ solver, constructed with the circle, now holds the flat
\* plate: solid on the plate, fluid elsewhere
C5_ShapeReplaced ==
    /\ lastOp = "setGeometry" /\ cpp # NoSolver /\ cpp.currentGeometry = "flat_plate"
    /\ \E i \in Cols(cpp), j \in Rows(cpp) : cpp.obstacle[i][j]
    /\ \E i \in Cols(cpp), j \in Rows(cpp) : ~cpp.obstacle[i][j]

\* ------------------------------------------------------------------------
\* C6  omega follows the viscosity
\* ------------------------------------------------------------------------
\* C6: in every reachable state of each of the three solvers
\* omega = 1 / (3*nu + 0.5) for the stored (most recently set) viscosity nu.
C6_OmegaNeverStale ==
    /\ cpp # NoSolver => cpp.omega = Relaxation(cpp.nu)
    /\ js # NoSolver => js.omega = Relaxation(js.nu)
    /\ cav # NoSolver => cav.omega = Relaxation(cav.viscosity)

\* C6 witness: the cavity has been stepped after its viscosity was changed
\* from the default 0.02 to 1/6, for which omega = 1
C6_ViscosityChanged ==
    /\ cav # NoSolver /\ lastOp = "step"
    /\ cav.viscosity = Rat(1, 6) /\ cav.omega = RatInt(1)

\* ------------------------------------------------------------------------
\* C7  frame conditions of the operations
\* ------------------------------------------------------------------------
\* what the claim calls lattice state: populations, macroscopic fields, solid
\* mask, stepCount and currentVelocity
CppLatticeState(s) == <<s.f, s.rho, s.ux, s.uy, s.obstacle, s.stepCount, s.currentVelocity>>
JsLatticeState(s) == <<s.f, s.rho, s.ux, s.uy, s.solid, s.stepCount, s.currentVelocity>>
Relaxing(s) == <<s.nu, s.tau, s.omega>>

\* C7: setViscosity changes only nu, tau and omega, and setVelocity only u0
\* (neither changes populations, macroscopic fields, solid mask, stepCount or
\* currentVelocity); setGeometry and reset change none of nu, tau, omega, u0;
\* step changes neither these parameters nor the solid mask.
C7_Frame ==
    [][/\ cpp' # NoSolver =>
            /\ lastOp' = "setViscosity" =>
                 CppLatticeState(cpp') = CppLatticeState(cpp) /\ cpp'.u0 = cpp.u0
            /\ lastOp' = "setVelocity" =>
                 CppLatticeState(cpp') = CppLatticeState(cpp) /\ Relaxing(cpp') = Relaxing(cpp)
            /\ lastOp' \in {"setGeometry", "reset"} =>
                 Relaxing(cpp') = Relaxing(cpp) /\ cpp'.u0 = cpp.u0
            /\ lastOp' = "step" =>
                 Relaxing(cpp') = Relaxing(cpp) /\ cpp'.u0 = cpp.u0 /\ cpp'.obstacle = cpp.obstacle
       /\ js' # NoSolver =>
            /\ lastOp' = "setViscosity" =>
                 JsLatticeState(js') = JsLatticeState(js) /\ js'.u0 = js.u0
            /\ lastOp' = "setVelocity" =>
                 JsLatticeState(js') = JsLatticeState(js) /\ Relaxing(js') = Relaxing(js)
            /\ lastOp' \in {"setGeometry", "reset"} =>
                 Relaxing(js') = Relaxing(js) /\ js'.u0 = js.u0
            /\ lastOp' = "step" =>
                 Relaxing(js') = Relaxing(js) /\ js'.u0 = js.u0 /\ js'.solid = js.solid]_vars

\* C7 witness: setVelocity(0) has just been called on a C++ solver two ticks
\* into its ramp; the ramped inlet velocity of the run is still in place
C7_SetVelocityMidRun ==
    /\ lastOp = "setVelocity" /\ cpp # NoSolver
    /\ cpp.stepCount = 2 /\ cpp.u0 = RatInt(0) /\ cpp.currentVelocity # RatInt(0)

\* ------------------------------------------------------------------------
\* C8  degenerate arguments (under SpecArgs)
\* ------------------------------------------------------------------------
\* C8, as stated: a constructor call with width <= 0 or height <= 0 (size <= 0
\* for the cavity) and a setViscosity call with a non-finite value fail, so
\* that no solver exists with a degenerate grid or a non-finite omega.
C8_DegenerateRejected ==
    /\ cpp # NoSolver => cpp.width > 0 /\ cpp.height > 0 /\ RatFinite(cpp.omega)
    /\ js # NoSolver => js.width > 0 /\ js.height > 0 /\ RatFinite(js.omega)
    /\ cav # NoSolver => cav.size > 0 /\ RatFinite(cav.omega)

\* ------------------------------------------------------------------------
\* C9  mass of the closed cavity
\* ------------------------------------------------------------------------
\* C9, as stated: in every reachable state of the cavity the sum of the nine
\* populations over the interior cells equals its value after reset, one per
\* interior cell.
C9_InteriorMassConserved ==
    cav # NoSolver => CavInteriorMass(cav) = FInt((cav.size - 2) * (cav.size - 2))

\* ------------------------------------------------------------------------
\* C10  the rest state is a fixed point
\* ------------------------------------------------------------------------
\* C10: a step taken in the rest state, with no obstacle and zero driving
\* velocity (u0 = 0 in the open-channel solvers, lidVelocity = 0 in the
\* cavity), leaves every population at w[k] and every cell's (rho, ux, uy) at
\* (1, 0, 0); hence so does any number of steps after reset.
C10_RestIsFixedPoint ==
    [][lastOp' = "step" =>
         /\ (cpp' # NoSolver /\ ChannelAtRest(cpp) /\ cpp.u0 = RatInt(0)
               /\ cpp.obstacle = Grid(cpp, FALSE)) => ChannelAtRest(cpp')
         /\ (js' # NoSolver /\ ChannelAtRest(js) /\ js.u0 = RatInt(0)
               /\ js.solid = Grid(js, FALSE)) => ChannelAtRest(js')
         /\ (cav' # NoSolver /\ CavAtRest(cav) /\ cav.lidVelocity = RatInt(0)) => CavAtRest(cav')]_vars

\* C10 witness: an obstacle-free JS solver with u0 = 0 has taken MaxTicks
\* steps since its reset and is at rest
C10_SteppedAtRest ==
    /\ lastOp = "step" /\ ticks = MaxTicks /\ js # NoSolver
    /\ js.u0 = RatInt(0) /\ js.solid = Grid(js, FALSE) /\ js.stepCount >= MaxTicks
    /\ ChannelAtRest(js)

\* ------------------------------------------------------------------------
\* C11  the served fields and the populations (under SpecQuery)
\* ------------------------------------------------------------------------
\* C11, as stated: once step() has returned, what getUx, getUy, getPressure
\* and getVelocityMagnitude serve for a fluid cell are the moments of the
\* populations that cell holds at the end of the tick.
C11_ServedAreEndOfTickMoments ==
    (cpp # NoSolver /\ ticks > 0
       /\ lastOp \in {"getUx", "getUy", "getPressure", "getVelocityMagnitude"}) =>
        \A i \in Cols(cpp), j \in Rows(cpp) :
            ~cpp.obstacle[i][j] =>
                At(returned, j * cpp.width + i) = ServedFor(lastOp, CppMoments(cpp, i, j))

\* ------------------------------------------------------------------------
\* C12  the two open-channel solvers side by side (under SpecPair)
\* ------------------------------------------------------------------------
\* C12, as stated: a C++ solver and a JS solver constructed with the same
\* dimensions and given the same calls hold, after every tick, the same solid
\* mask cell for cell and the same currentVelocity.
C12_SolversAgree ==
    (lastOp = "step" /\ cpp # NoSolver /\ js # NoSolver) =>
        /\ \A i \in Cols(cpp), j \in Rows(cpp) : cpp.obstacle[i][j] = js.solid[i][j]
        /\ cpp.currentVelocity = js.currentVelocity

\* ------------------------------------------------------------------------
\* C13  field queries are pure (under SpecQuery)
\* ------------------------------------------------------------------------
\* C13: a call of a C++ field query (getVelocityMagnitude, getVorticity,
\* getPressure, getObstacle, getUx, getUy) changes no solver state; what it
\* returns is what the same query returns on the state it leaves, and a query
\* called right after itself returns the identical sequence.
C13_QueriesChangeNothing ==
    [][lastOp' \in CppQueries =>
         /\ cpp' = cpp /\ ticks' = ticks
         /\ returned' = CppQuery(cpp', lastOp')
         /\ lastOp = lastOp' => returned' = returned]_vars

\* C13 witness: getVorticity has answered on a solver that has run QueryTicks
\* ticks, with a cell of non-zero vorticity in the answer
C13_QueriedAfterRun ==
    /\ lastOp = "getVorticity" /\ cpp # NoSolver /\ ticks = QueryTicks
    /\ \E n \in 1..Len(returned) : returned[n] # Zero

\* ------------------------------------------------------------------------
\* C14  layout of the served arrays (under SpecQuery)
\* ------------------------------------------------------------------------
\* C14: every field query returns exactly width * height entries, the entry
\* at index j * width + i being the value of cell (i, j); render and
\* drawStreamlines of the WASM wrapper look cell (i, j) up at that index.
C14_RowMajor ==
    (lastOp \in CppQueries /\ cpp # NoSolver) =>
        /\ Len(returned) = cpp.width * cpp.height
        /\ \A i \in Cols(cpp), j \in Rows(cpp) :
              /\ At(returned, j * cpp.width + i) = CppCellValue(cpp, lastOp, i, j)
              /\ lastOp \in RenderQueries =>
                   At(returned, dataIdx(cpp.width, i, j)) = CppCellValue(cpp, lastOp, i, j)
              /\ lastOp \in StreamlineQueries =>
                   At(returned, idx(cpp.width, i, j)) = CppCellValue(cpp, lastOp, i, j)

\* C14 witness: getObstacle has answered for the flat plate, which is solid
\* at an entry whose transposed position is fluid
C14_PlateServed ==
    /\ lastOp = "getObstacle" /\ cpp # NoSolver /\ cpp.currentGeometry = "flat_plate"
    /\ \E i \in Cols(cpp), j \in Rows(cpp) :
          /\ At(returned, j * cpp.width + i)
          /\ ~At(returned, i * cpp.height + j)

\* ------------------------------------------------------------------------
\* C15  vorticity on the border (under SpecQuery)
\* ------------------------------------------------------------------------
\* the cells of the first and last column and of the first and last row
Border(s) ==
    {c \in Cols(s) \X Rows(s) :
        c[1] = 0 \/ c[1] = s.width - 1 \/ c[2] = 0 \/ c[2] = s.height - 1}

\* C15: in every reachable state getVorticity returns exactly 0 for every
\* cell of the domain border, reads ux and uy of no cell outside the grid, and
\* returns 0 for every cell when ux and uy are zero everywhere.
C15_VorticityBorder ==
    (lastOp = "getVorticity" /\ cpp # NoSolver) =>
        /\ \A c \in Border(cpp) : At(returned, c[2] * cpp.width + c[1]) = Zero
        /\ \A i \in Cols(cpp), j \in Rows(cpp) :
              VorticityStencil(cpp, i, j) \subseteq Cols(cpp) \X Rows(cpp)
        /\ (cpp.ux = Grid(cpp, Zero) /\ cpp.uy = Grid(cpp, Zero)) =>
              \A n \in 1..Len(returned) : returned[n] = Zero

\* C15 witness: getVorticity has answered on a sheared flow: ux differs
\* between two cells of the second column, one of them on the border, and an
\* interior cell has non-zero vorticity
C15_ShearedFlowServed ==
    /\ lastOp = "getVorticity" /\ cpp # NoSolver
    /\ cpp.ux[1][0] # cpp.ux[1][1]
    /\ \E i \in Cols(cpp), j \in Rows(cpp) :
          <<i, j>> \notin Border(cpp) /\ At(returned, j * cpp.width + i) # Zero

\* ------------------------------------------------------------------------
\* C16  macroscopic fields of solid cells (under SpecNarrow)
\* ------------------------------------------------------------------------
\* C16, as stated: after any number of steps the stored (rho, ux, uy) of
\* every solid cell are the initial (1, 0, 0), in both open-channel solvers.
C16_SolidFieldsUntouched ==
    /\ cpp # NoSolver =>
         \A i \in Cols(cpp), j \in Rows(cpp) :
             cpp.obstacle[i][j] =>
                 cpp.rho[i][j] = One /\ cpp.ux[i][j] = Zero /\ cpp.uy[i][j] = Zero
    /\ js # NoSolver =>
         \A i \in Cols(js), j \in Rows(js) :
             js.solid[i][j] =>
                 js.rho[i][j] = One /\ js.ux[i][j] = Zero /\ js.uy[i][j] = Zero

\* ------------------------------------------------------------------------
\* C17  bounce-back at the obstacle (under SpecFlow)
\* ------------------------------------------------------------------------
\* the cells no boundary rule touches
OffBorder(s, i, j) == i > 0 /\ i < s.width - 1 /\ j > 0 /\ j < s.height - 1

\* C17, as stated: in both open-channel solvers the population a fluid cell
\* emits in direction k towards an adjacent solid cell (its value after the
\* collision of the tick) is, when the tick ends, that fluid cell's population
\* in direction opp[k].  Stated for the fluid cells no boundary rule rewrites.
C17_BounceBackReturns ==
    [][lastOp' = "step" =>
         /\ cpp' # NoSolver =>
              LET emitted == CppCollision(CppRampUp(cpp)).f
              IN  \A i \in Cols(cpp), j \in Rows(cpp), k \in 1..8 :
                      (OffBorder(cpp, i, j) /\ ~cpp.obstacle[i][j]
                         /\ cpp.obstacle[i + ex[k]][j + ey[k]]) =>
                          cpp'.f[i][j][opp[k]] = emitted[i][j][k]
         /\ js' # NoSolver =>
              LET emitted == JsCollision(JsRampUp(js)).f
              IN  \A i \in Cols(js), j \in Rows(js), k \in 1..8 :
                      (OffBorder(js, i, j) /\ ~js.solid[i][j]
                         /\ js.solid[i + ex[k]][j + ey[k]]) =>
                          js'.f[i][j][opp[k]] = emitted[i][j][k]]_vars

\* ------------------------------------------------------------------------
\* C18  pull streaming (under SpecFlow)
\* ------------------------------------------------------------------------
\* C18: in both open-channel solvers, when the streaming pass has run over
\* the collided populations and before the boundary rules, every non-solid
\* cell (i, j) holds in each direction k whose upstream cell is inside the
\* grid the collided value of that upstream cell; the pass run cell by cell,
\* in loop order, gives that same result, so no value it reads was written
\* earlier in the pass; and the JS unrolled indices and the C++ loop name the
\* same source cell for every (i, j, k).
C18_PullStreaming ==
    [][lastOp' = "step" =>
         /\ cpp' # NoSolver =>
              LET collided == CppCollision(CppRampUp(cpp))
                  streamed == CppStreamLoop(collided)
              IN  /\ streamed = CppStreaming(collided)
                  /\ \A i \in Cols(cpp), j \in Rows(cpp), k \in Dirs :
                        /\ CppSource(cpp, i, j, k) = JsSource(cpp, i, j, k)
                        /\ (~cpp.obstacle[i][j] /\ CppSource(cpp, i, j, k) # <<>>) =>
                              streamed.f[i][j][k] = collided.f[i - ex[k]][j - ey[k]][k]
                        /\ OffBorder(cpp, i, j) => cpp'.f[i][j][k] = streamed.f[i][j][k]
         /\ js' # NoSolver =>
              LET collided == JsCollision(JsRampUp(js))
                  streamed == JsStreamLoop(collided)
              IN  /\ streamed = JsStreaming(collided)
                  /\ \A i \in Cols(js), j \in Rows(js), k \in Dirs :
                        /\ JsSource(js, i, j, k) = CppSource(js, i, j, k)
                        /\ (~js.solid[i][j] /\ JsSource(js, i, j, k) # <<>>) =>
                              streamed.f[i][j][k] = collided.f[i - ex[k]][j - ey[k]][k]
                        /\ OffBorder(js, i, j) => js'.f[i][j][k] = streamed.f[i][j][k]]_vars

\* C18 witness: a C++ solver has taken tick FlowTicks and two neighbouring
\* cells off the border hold different populations in direction 1, so that a
\* pull from the wrong cell or from a cell already rewritten shows
C18_FlowStreamed ==
    /\ lastOp = "step" /\ cpp # NoSolver /\ ticks = FlowTicks
    /\ cpp.f[1][1][1] # cpp.f[2][1][1]
    /\ cpp.f[2][1][1] # w[1]

\* ------------------------------------------------------------------------
\* C19  the fixed walls of the cavity (under SpecCavity)
\* ------------------------------------------------------------------------
\* the nodes of the left, right and bottom wall, corners left out, each with
\* the sign a lattice vector has in x or in y when it points into the wall
FixedWallNodes(s) ==
    {[node |-> <<0, j>>, axis |-> 1, sign |-> -1] : j \in 1..(s.size - 2)}
      \cup {[node |-> <<s.size - 1, j>>, axis |-> 1, sign |-> 1] : j \in 1..(s.size - 2)}
      \cup {[node |-> <<i, 0>>, axis |-> 2, sign |-> -1] : i \in 1..(s.size - 2)}

\* C19, as stated: the left, right and bottom wall rules are bounce-back: for
\* a wall node and a direction d pointing into the wall, the population the
\* node holds in direction d had streamed from the cell one lattice vector
\* back, and when that cell is an interior cell the step leaves it, in the
\* opposite direction, in that cell.
C19_FixedWallsBounceBack ==
    [][(lastOp' = "step" /\ cav' # NoSolver /\ ~CavStepThrows(cav)) =>
         \A n \in FixedWallNodes(cav), d \in CavMoving :
             LET i == n.node[1] - CavVec[d][1]
                 j == n.node[2] - CavVec[d][2]
             IN  (CavVec[d][n.axis] = n.sign /\ CavInterior(cav, i, j)) =>
                     cav'[CavOpp[d]][i][j] = cav[d][n.node[1]][n.node[2]]]_vars

\* ------------------------------------------------------------------------
\* C20  every population of an interior cell is assigned in a step
\*      (under SpecCavity)
\* ------------------------------------------------------------------------
\* the entries <<array, i, j>> of the S buffers the three stages of step()
\* assign: collision with push, the four wall rules, the four corner rules
CavPushed(s) ==
    {<<"f00", c[1], c[2]>> : c \in {c \in Cells(s) \X Cells(s) : CavInterior(s, c[1], c[2])}}
      \cup {<<d, c[1] + CavVec[d][1], c[2] + CavVec[d][2]>> :
               d \in CavMoving, c \in {c \in Cells(s) \X Cells(s) : CavInterior(s, c[1], c[2])}}

CavWallWritten(s) ==
    LET imax == s.size - 1
        jmax == s.size - 1
    IN  UNION {{<<"fp0", 1, j>>, <<"fpp", 1, j + 1>>, <<"fpm", 1, j - 1>>,
                <<"fm0", imax - 1, j>>, <<"fmp", imax - 1, j + 1>>, <<"fmm", imax - 1, j - 1>>} :
                   j \in 1..(jmax - 1)}
          \cup UNION {{<<"f0m", i, jmax - 1>>, <<"fmm", i - 1, jmax - 1>>, <<"fpm", i + 1, jmax - 1>>,
                       <<"f0p", i, 1>>, <<"fmp", i - 1, 1>>, <<"fpp", i + 1, 1>>} :
                          i \in 1..(imax - 1)}

CavCornerWritten(s) ==
    LET imax == s.size - 1
        jmax == s.size - 1
    IN  {<<"fpp", 1, 1>>, <<"fmp", 1, jmax - 1>>, <<"fpm", imax - 1, 1>>, <<"fmm", imax - 1, jmax - 1>>}

\* C20, as stated: in a cavity of size >= 4 every step assigns each of the
\* nine populations of every interior cell, by the push from an interior
\* neighbour or by a wall or corner rule, so that none is left over from an
\* earlier tick, and no wall or corner rule overwrites a pushed value.
C20_EveryPopulationAssigned ==
    [][(lastOp' = "step" /\ cav' # NoSolver /\ cav.size >= 4) =>
         \A i \in Cells(cav), j \in Cells(cav), d \in CavMoving \cup {"f00"} :
             CavInterior(cav, i, j) =>
                 /\ <<d, i, j>> \in CavPushed(cav) \cup CavWallWritten(cav) \cup CavCornerWritten(cav)
                 /\ <<d, i, j>> \notin CavPushed(cav) \cap (CavWallWritten(cav) \cup CavCornerWritten(cav))]_vars

\* ------------------------------------------------------------------------
\* C21  the inlet rule (under SpecNarrow)
\* ------------------------------------------------------------------------
\* C21: when step() of an open-channel solver returns, currentVelocity is the
\* value the ramp-up stage of that step computed, and in every row j, the two
\* corner rows and the solid cells of column 0 included, each of the nine
\* populations of cell (0, j) is the equilibrium value for rho = 1,
\* ux = currentVelocity, uy = 0.
C21_InletEquilibrium ==
    [][(lastOp' = "step" /\ outcome' = "ok") =>
         /\ cpp' # NoSolver =>
              /\ cpp'.currentVelocity = CppRampUp(cpp).currentVelocity
              /\ \A j \in Rows(cpp), k \in Dirs :
                    cpp'.f[0][j][k] =
                        CppEquilibrium(k, One, ToField(cpp'.currentVelocity), Zero)
         /\ js' # NoSolver =>
              /\ js'.currentVelocity = JsRampUp(js).currentVelocity
              /\ \A j \in Rows(js), k \in Dirs :
                    js'.f[0][j][k] =
                        JsComputeEquilibrium(One, ToField(js'.currentVelocity), Zero)[k]]_vars

\* C21 witness: a C++ solver with a solid cell in column 0 has taken a tick
\* whose ramped velocity is not zero, and that solid cell no longer holds the
\* rest weights
C21_SolidInletCellRewritten ==
    /\ lastOp = "step" /\ outcome = "ok" /\ cpp # NoSolver
    /\ cpp.currentVelocity # RatInt(0)
    /\ \E j \in Rows(cpp) : cpp.obstacle[0][j] /\ cpp.f[0][j][1] # w[1]

\* ------------------------------------------------------------------------
\* C22  the outlet rule (under SpecNarrow)
\* ------------------------------------------------------------------------
\* C22: when step() of an open-channel solver returns, the last column holds
\* in every row j, rows 0 and height - 1 included, and every direction k the
\* population of the column before it: f[width-1][j][k] = f[width-2][j][k].
C22_OutletZeroGradient ==
    [][(lastOp' = "step" /\ outcome' = "ok") =>
         /\ cpp' # NoSolver =>
              \A j \in Rows(cpp), k \in Dirs :
                  cpp'.f[cpp.width - 1][j][k] = cpp'.f[cpp.width - 2][j][k]
         /\ js' # NoSolver =>
              \A j \in Rows(js), k \in Dirs :
                  js'.f[js.width - 1][j][k] = js'.f[js.width - 2][j][k]]_vars

\* C22 witness: a C++ solver has taken a tick after which the flow has come
\* to the outlet: the corner cell of the last column is off the rest weights
\* and its populations 5 and 8, which the free-slip rule exchanges, differ
C22_FlowAtOutlet ==
    /\ lastOp = "step" /\ outcome = "ok" /\ cpp # NoSolver
    /\ cpp.f[cpp.width - 1][0][1] # w[1]
    /\ cpp.f[cpp.width - 1][0][5] # cpp.f[cpp.width - 1][0][8]

\* ------------------------------------------------------------------------
\* C23  the free-slip rule (under SpecNarrow)
\* ------------------------------------------------------------------------
\* the rows of the two free-slip walls
WallRows(s) == {0, s.height - 1}

\* C23: on a grid of height >= 2, with the populations the inlet and outlet
\* rules leave as the starting point, the step ends with every cell of row 0
\* and of row height - 1 having populations 2 and 4, 5 and 8, 6 and 7
\* exchanged and 0, 1, 3 as they were, so that the cell's density and
\* x-momentum are the same and its y-momentum has the opposite sign; the
\* cells of the other rows are as the inlet and outlet rules left them; and
\* the std::swap form and the form with temporaries give the same cell.
C23_FreeSlipExchange ==
    [][(lastOp' = "step" /\ outcome' = "ok") =>
         /\ (cpp' # NoSolver /\ cpp.height >= 2) =>
              LET before == CppOutlet(CppInlet(CppStreaming(CppCollision(CppRampUp(cpp))))).f
              IN  \A i \in Cols(cpp), j \in Rows(cpp) :
                      LET g == before[i][j]
                          h == cpp'.f[i][j]
                      IN  IF j \in WallRows(cpp)
                          THEN /\ h[2] = g[4] /\ h[4] = g[2]
                               /\ h[5] = g[8] /\ h[8] = g[5]
                               /\ h[6] = g[7] /\ h[7] = g[6]
                               /\ h[0] = g[0] /\ h[1] = g[1] /\ h[3] = g[3]
                               /\ Sum9(h) = Sum9(g)
                               /\ MomX(h) = MomX(g)
                               /\ MomY(h) = FSub(Zero, MomY(g))
                               /\ JsFreeSlipCell(g) = CppFreeSlipCell(g)
                          ELSE h = g
         /\ (js' # NoSolver /\ js.height >= 2) =>
              LET before == JsOutlet(JsInlet(JsStreaming(JsCollision(JsRampUp(js))))).f
              IN  \A i \in Cols(js), j \in Rows(js) :
                      LET g == before[i][j]
                          h == js'.f[i][j]
                      IN  IF j \in WallRows(js)
                          THEN /\ h[2] = g[4] /\ h[4] = g[2]
                               /\ h[5] = g[8] /\ h[8] = g[5]
                               /\ h[6] = g[7] /\ h[7] = g[6]
                               /\ h[0] = g[0] /\ h[1] = g[1] /\ h[3] = g[3]
                               /\ Sum9(h) = Sum9(g)
                               /\ MomX(h) = MomX(g)
                               /\ MomY(h) = FSub(Zero, MomY(g))
                               /\ CppFreeSlipCell(g) = JsFreeSlipCell(g)
                          ELSE h = g]_vars

\* C23 witness: a C++ solver has taken a tick that left, in a wall-row cell
\* off the inlet column, each of the three exchanged pairs with two different
\* values and a y-momentum that is not zero
C23_WallCellReflected ==
    /\ lastOp = "step" /\ outcome = "ok" /\ cpp # NoSolver /\ cpp.height >= 2
    /\ \E i \in Cols(cpp) \ {0}, j \in WallRows(cpp) :
          /\ cpp.f[i][j][2] # cpp.f[i][j][4]
          /\ cpp.f[i][j][5] # cpp.f[i][j][8]
          /\ cpp.f[i][j][6] # cpp.f[i][j][7]
          /\ MomY(cpp.f[i][j]) # Zero

\* ------------------------------------------------------------------------
\* C24  render() of the JS solver as a consumer of the fields
\*      (under SpecRender)
\* ------------------------------------------------------------------------
\* C24, as stated: render() of the JS solver, in any visualization mode,
\* leaves rho, ux, uy and f as they were, and in pressure mode what it draws
\* from for a non-solid cell is the density the solver held before the call.
C24_RenderLeavesFields ==
    [][lastOp' = "render" =>
         /\ js'.rho = js.rho /\ js'.ux = js.ux /\ js'.uy = js.uy /\ js'.f = js.f
         /\ js.visualMode = "pressure" =>
                \A i \in Cols(js), j \in Rows(js) :
                    ~js.solid[i][j] => returned'[i][j] = js.rho[i][j]]_vars

\* ------------------------------------------------------------------------
\* C25  solid cells off the border stay at the rest weights (under SpecFlow,
\*      where a shape is chosen only before the first tick of a run)
\* ------------------------------------------------------------------------
\* C25: in both open-channel solvers, after any number of steps since the
\* reset that followed the last change of shape, every solid cell off the
\* grid border holds f[k] = w[k] for every k; and the exchange of opposite
\* directions maps the rest weights onto themselves, w[opp[k]] = w[k].
C25_SolidCellsKeepRestWeights ==
    /\ \A k \in Dirs : w[opp[k]] = w[k]
    /\ cpp # NoSolver =>
         \A i \in Cols(cpp), j \in Rows(cpp), k \in Dirs :
             (OffBorder(cpp, i, j) /\ cpp.obstacle[i][j]) => cpp.f[i][j][k] = w[k]
    /\ js # NoSolver =>
         \A i \in Cols(js), j \in Rows(js), k \in Dirs :
             (OffBorder(js, i, j) /\ js.solid[i][j]) => js.f[i][j][k] = w[k]

\* C25 witness: a C++ solver has taken tick FlowTicks and a solid cell off
\* the border has, upstream in some direction k, a fluid cell whose
\* population k has left its rest weight
C25_FlowAtSolidCell ==
    /\ lastOp = "step" /\ cpp # NoSolver /\ ticks = FlowTicks
    /\ \E i \in Cols(cpp), j \in Rows(cpp), k \in 1..8 :
          /\ OffBorder(cpp, i, j) /\ cpp.obstacle[i][j]
          /\ ~cpp.obstacle[i - ex[k]][j - ey[k]]
          /\ cpp.f[i - ex[k]][j - ey[k]][k] # w[k]

\* ------------------------------------------------------------------------
\* C26  reset() of the cavity against a new cavity (under SpecCavity)
\* ------------------------------------------------------------------------
\* the nine current population arrays and the macroscopic fields
CavFields(s) ==
    <<s.f00, s.fp0, s.fm0, s.f0p, s.f0m, s.fpp, s.fpm, s.fmp, s.fmm, s.rho, s.ux, s.uy>>

\* the streamed (S) arrays
CavStreamed(s) ==
    <<s.f00S, s.fp0S, s.fm0S, s.f0pS, s.f0mS, s.fppS, s.fpmS, s.fmpS, s.fmmS>>

\* n calls of step()
RECURSIVE CavRun(_, _)
CavRun(s, n) == IF n = 0 THEN s ELSE CavRun(CavStep(s), n - 1)

\* new LBMCavity of the size of s, given the viscosity and lid velocity of s
CavFresh(s) ==
    CavSetViscosity(CavSetLidVelocity(CavConstruct(s.size), s.lidVelocity), s.viscosity)

\* C26: whatever was done to a cavity before its last reset(), after n calls
\* of step() since that reset, for any n up to CavityTicks, its populations
\* and macroscopic fields are those of a newly constructed cavity of the
\* same size, viscosity and lid velocity after n calls of step().
C26_ResetAsNew ==
    cav # NoSolver => CavFields(cav) = CavFields(CavRun(CavFresh(cav), ticks))

\* C26 witness: reset() has returned on a cavity whose lid had set the fluid
\* in motion, and the streamed arrays, which reset does not rewrite, are not
\* those of a new cavity
C26_ResetAfterRun ==
    /\ lastOp = "reset" /\ cav # NoSolver /\ ticks = 0
    /\ CavStreamed(cav) # CavStreamed(CavFresh(cav))
    /\ cav.fmmS # Square(cav, W2)

\* ------------------------------------------------------------------------
\* C27  the cell a pixel of the cavity is drawn from (under SpecCavityRender)
\* ------------------------------------------------------------------------
\* the value of cell (i, j) in the mode of s: its speed, its pressure, or its
\* vorticity with 0 on the border
CavCellValue(s, i, j) ==
    CASE s.visualMode = "velocity" -> CavSpeed(s, i, j)
      [] s.visualMode = "pressure" -> CavPressure(s, i, j)
      [] OTHER -> IF CavInterior(s, i, j) THEN CavVort(s, i, j) ELSE Zero

\* C27, as stated: in each of the three modes render() of the cavity draws
\* the pixel of cell (i, j) from the value computed from the fields of cell
\* (i, j): the index a cell's value has in the list values is the index the
\* colour pass reads for that cell, and a border cell in vorticity mode reads 0.
C27_PixelOfItsOwnCell ==
    [][(lastOp' = "render" /\ cav' # NoSolver) =>
         \A i \in Cells(cav), j \in Cells(cav) :
             returned'[i][j] = CavCellValue(cav, i, j)]_vars

\* ------------------------------------------------------------------------
\* C28  one animate loop at a time (under SpecPage)
\* ------------------------------------------------------------------------
\* C28, as stated: under any interleaving of Start/Stop clicks, Reset
\* clicks, geometry changes, auto-restart timers and animation frames, at
\* most one requestAnimationFrame callback for animate is pending.
C28_OneAnimateLoop ==
    page # NoPage => Cardinality(page.frames) <= 1

\* ------------------------------------------------------------------------
\* C29  operations reach the solver in the order of their calls
\*      (under SpecWasm)
\* ------------------------------------------------------------------------
\* C29, as stated: on every LBMSolverWASM instance the operations that have
\* reached the solver are, in order, the first of the operations called on
\* it, whether they were called before or after initialization completed:
\* none is overtaken by one called later, and the render() of a frame comes
\* after the step() calls of that frame.
C29_AppliedInCallOrder ==
    wasm # NoWasm =>
        \A i \in DOMAIN wasm.inst :
            /\ Len(wasm.inst[i].applied) <= Len(wasm.inst[i].issued)
            /\ wasm.inst[i].applied = SubSeq(wasm.inst[i].issued, 1, Len(wasm.inst[i].applied))

\* ------------------------------------------------------------------------
\* C30  one WASM module per page (under SpecWasm)
\* ------------------------------------------------------------------------
\* C30, as stated: however many instances are constructed and in whatever
\* order their initializations complete, the Module factory has been called
\* at most once and all the solvers were created from the same module.
C30_OneModule ==
    wasm # NoWasm =>
        /\ wasm.factoryCalls <= 1
        /\ \A i, j \in DOMAIN wasm.inst :
               (wasm.inst[i].wasmReady /\ wasm.inst[j].wasmReady) =>
                   wasm.inst[i].from = wasm.inst[j].from

====
